---- MODULE Spec2Model ----
(***************************************************************************)
(* State-machine model of the PIC12F629/675 simulator engine:              *)
(* memory, GPIO, Timer0/Timer1, WDT, interrupt controller, CPU register    *)
(* dispatch, instruction decoder, executor and the Simulator outer loop.   *)
(***************************************************************************)
EXTENDS Integers, Sequences, FiniteSets, TLC

VARIABLES
    cpu,             \* Simulator.cpu: the Cpu with its Memory and peripherals
    program_memory,  \* Memory.program_memory, as the loaded image (rest is 0)
    state,           \* Simulator.state
    stats,           \* Simulator.stats
    breakpoints,     \* Simulator.breakpoints
    ret,             \* what the last operation returned and did
    hist,            \* the interrupt being serviced: where and at which depth
    host,            \* what the host has done: register writes made, reset called
    q                \* argument/result of the pure-function checks

vars == <<cpu, program_memory, state, stats, breakpoints, ret, hist, host, q>>

(***************************************************************************)
(* Fixed-width integer arithmetic of the source (u8 / u16).                *)
(***************************************************************************)
Pow2(n) == 2 ^ n

Bit(x, b) == (x \div Pow2(b)) % 2

RECURSIVE And(_, _)
And(x, y) ==
    IF x = 0 \/ y = 0 THEN 0
    ELSE (x % 2) * (y % 2) + 2 * And(x \div 2, y \div 2)

Or(x, y) == x + y - And(x, y)

Xor(x, y) == x + y - 2 * And(x, y)

Not8(x) == 255 - x

Shl8(x, n) == (x * Pow2(n)) % 256

Shr(x, n) == x \div Pow2(n)

WrapAdd8(x, y) == (x + y) % 256

WrapSub8(x, y) == (x - y + 256) % 256

Byte == 0 .. 255

(***************************************************************************)
(* memory.rs                                                               *)
(***************************************************************************)
PROGRAM_MEMORY_SIZE == 1024

DATA_MEMORY_SIZE == 256

STACK_DEPTH == 8

EEPROM_SIZE == 128

\* the program memory of Memory is the variable program_memory
Memory_new ==
    [ data_memory   |-> [a \in 0 .. DATA_MEMORY_SIZE - 1 |-> 0],
      stack         |-> [i \in 0 .. STACK_DEPTH - 1 |-> 0],
      stack_pointer |-> 0,
      eeprom        |-> [a \in 0 .. EEPROM_SIZE - 1 |-> 0] ]

\* read_program: the image holds the loaded words, every other cell is 0
read_program(pm, address) ==
    LET addr == And(address, \H3FF)
    IN  IF addr < Len(pm) THEN pm[addr + 1] ELSE 0

\* load_program on a zeroed program memory: each word masked to 14 bits
load_program(program) ==
    [i \in 1 .. Len(program) |-> And(program[i], \H3FFF)]

read_data(m, address) == m.data_memory[And(address, \H7F)]

write_data(m, address, value) ==
    [m EXCEPT !.data_memory[And(address, \H7F)] = value]

banked_addr(address, bank) ==
    IF address < \H0C \/ bank = 0 THEN address
    ELSE And(Or(address, \H80), \H7F)

read_data_banked(m, address, bank) == m.data_memory[banked_addr(address, bank)]

write_data_banked(m, address, value, bank) ==
    [m EXCEPT !.data_memory[banked_addr(address, bank)] = value]

\* a push that drops the new address when the stack is full
push_stack_keeping_oldest(m, address) ==
    IF m.stack_pointer >= STACK_DEPTH THEN m
    ELSE [m EXCEPT !.stack[m.stack_pointer] = And(address, \H1FFF),
                   !.stack_pointer = m.stack_pointer + 1]

\* a push that keeps growing past the eighth level
push_stack_unbounded(m, address) ==
    [m EXCEPT !.stack_pointer = m.stack_pointer + 1]

push_stack(m, address) ==
    LET addr == And(address, \H1FFF)
    IN  IF m.stack_pointer >= STACK_DEPTH
        THEN [m EXCEPT !.stack =
                 [i \in 0 .. STACK_DEPTH - 1 |->
                     IF i < STACK_DEPTH - 1 THEN m.stack[i + 1] ELSE addr]]
        ELSE [m EXCEPT !.stack[m.stack_pointer] = addr,
                       !.stack_pointer = m.stack_pointer + 1]

\* pop_stack: the value returned ...
pop_stack_value(m) ==
    IF m.stack_pointer = 0 THEN 0 ELSE m.stack[m.stack_pointer - 1]

\* ... and the memory it leaves
pop_stack(m) ==
    IF m.stack_pointer = 0 THEN m
    ELSE [m EXCEPT !.stack_pointer = m.stack_pointer - 1]

read_eeprom(m, address) == m.eeprom[And(address, \H7F)]

write_eeprom(m, address, value) ==
    [m EXCEPT !.eeprom[And(address, \H7F)] = value]

\* a reset that erases the EEPROM as well
Memory_reset_erasing_eeprom(m) ==
    [m EXCEPT !.data_memory = [a \in 0 .. DATA_MEMORY_SIZE - 1 |-> 0],
              !.stack_pointer = 0,
              !.eeprom = [a \in 0 .. EEPROM_SIZE - 1 |-> 0]]

Memory_reset(m) ==
    [m EXCEPT !.data_memory = [a \in 0 .. DATA_MEMORY_SIZE - 1 |-> 0],
              !.stack_pointer = 0]

(***************************************************************************)
(* gpio.rs                                                                 *)
(***************************************************************************)
Gpio_new ==
    [ port_value               |-> \H00,
      tris                     |-> \H3F,
      weak_pullup              |-> \H00,
      external_pins            |-> \H3F,
      peripheral_output_enable |-> \H00,
      peripheral_output_value  |-> \H00 ]

write_gpio(g, value) == [g EXCEPT !.port_value = And(value, \H3F)]

\* a read that returns the port latch whatever the pin's direction
read_gpio_bit_latch(g, bit) == Bit(g.port_value, bit)

read_gpio_bit(g, bit) ==
    IF Bit(g.peripheral_output_enable, bit) # 0
    THEN Bit(g.peripheral_output_value, bit)
    ELSE IF Bit(g.tris, bit) # 0
         THEN Bit(g.external_pins, bit)
         ELSE Bit(g.port_value, bit)

read_gpio(g) ==
    read_gpio_bit(g, 0) + 2 * read_gpio_bit(g, 1) + 4 * read_gpio_bit(g, 2)
    + 8 * read_gpio_bit(g, 3) + 16 * read_gpio_bit(g, 4) + 32 * read_gpio_bit(g, 5)

write_tris(g, value) == [g EXCEPT !.tris = Or(And(value, \H3F), \H08)]

read_tris(g) == g.tris

write_wpu(g, value) == [g EXCEPT !.weak_pullup = And(value, \H37)]

read_wpu(g) == g.weak_pullup

set_external_pin(g, pin, st) ==
    IF pin < 6
    THEN IF st
         THEN [g EXCEPT !.external_pins = Or(g.external_pins, Pow2(pin))]
         ELSE [g EXCEPT !.external_pins =
                             And(g.external_pins, Not8(Pow2(pin)))]
    ELSE g

set_external_pins(g, value) == [g EXCEPT !.external_pins = And(value, \H3F)]

get_pin_state(g, pin) ==
    IF pin >= 6 THEN "HighZ"
    ELSE IF Bit(g.peripheral_output_enable, pin) # 0
         THEN IF Bit(g.peripheral_output_value, pin) # 0 THEN "High" ELSE "Low"
         ELSE IF Bit(g.tris, pin) # 0 THEN "HighZ"
              ELSE IF Bit(g.port_value, pin) # 0 THEN "High" ELSE "Low"

set_peripheral_control(g, pin, enable, value) ==
    IF pin < 6
    THEN IF enable
         THEN [g EXCEPT
                 !.peripheral_output_enable =
                     Or(g.peripheral_output_enable, Pow2(pin)),
                 !.peripheral_output_value =
                     IF value THEN Or(g.peripheral_output_value, Pow2(pin))
                     ELSE And(g.peripheral_output_value, Not8(Pow2(pin)))]
         ELSE [g EXCEPT !.peripheral_output_enable =
                             And(g.peripheral_output_enable, Not8(Pow2(pin)))]
    ELSE g

(***************************************************************************)
(* timer.rs                                                                *)
(***************************************************************************)
Timer0_new ==
    [ counter                   |-> 0,
      prescaler                 |-> 0,
      prescaler_assigned_to_wdt |-> FALSE,
      prescaler_rate            |-> 2,
      clock_source_external     |-> FALSE,
      edge_select               |-> FALSE ]

\* Timer0::write_counter
Timer0_write_counter(t, value) == [t EXCEPT !.counter = value, !.prescaler = 0]

Timer0_configure_from_option(t, option_reg) ==
    [t EXCEPT !.clock_source_external = And(option_reg, \H20) # 0,
              !.edge_select = And(option_reg, \H10) # 0,
              !.prescaler_assigned_to_wdt = And(option_reg, \H08) # 0,
              !.prescaler_rate = Pow2(And(option_reg, \H07) + 1),
              !.prescaler = 0]

\* a tick whose prescaler counts one step too many
Timer0_tick_late(t) ==
    IF t.clock_source_external THEN <<t, FALSE>>
    ELSE IF t.prescaler_assigned_to_wdt
         THEN <<[t EXCEPT !.counter = (t.counter + 1) % 256], t.counter = 255>>
         ELSE IF t.prescaler + 1 > t.prescaler_rate
              THEN <<[t EXCEPT !.prescaler = 0,
                               !.counter = (t.counter + 1) % 256],
                     t.counter = 255>>
              ELSE <<[t EXCEPT !.prescaler = t.prescaler + 1], FALSE>>

\* Timer0::tick: <<timer after the tick, overflow>>
Timer0_tick(t) ==
    IF t.clock_source_external THEN <<t, FALSE>>
    ELSE IF t.prescaler_assigned_to_wdt
         THEN <<[t EXCEPT !.counter = (t.counter + 1) % 256], t.counter = 255>>
         ELSE IF t.prescaler + 1 >= t.prescaler_rate
              THEN <<[t EXCEPT !.prescaler = 0,
                               !.counter = (t.counter + 1) % 256],
                     t.counter = 255>>
              ELSE <<[t EXCEPT !.prescaler = t.prescaler + 1], FALSE>>

Timer1_new ==
    [ counter               |-> 0,
      enabled               |-> FALSE,
      clock_source_external |-> FALSE,
      prescaler_rate        |-> 1,
      prescaler             |-> 0,
      oscillator_enabled    |-> FALSE,
      sync_external_clock   |-> TRUE ]

read_low(t) == And(t.counter, \HFF)

read_high(t) == And(Shr(t.counter, 8), \HFF)

write_low(t, value) == [t EXCEPT !.counter = Or(And(t.counter, \HFF00), value)]

write_high(t, value) ==
    [t EXCEPT !.counter = Or(And(t.counter, \H00FF), value * 256)]

configure_from_t1con(t, t1con) ==
    [t EXCEPT !.prescaler_rate = Pow2(And(Shr(t1con, 4), \H03)),
              !.oscillator_enabled = And(t1con, \H08) # 0,
              !.sync_external_clock = (And(t1con, \H04) = 0),
              !.clock_source_external = And(t1con, \H02) # 0,
              !.enabled = And(t1con, \H01) # 0]

\* a tick that ignores the prescaler
Timer1_tick_unscaled(t) ==
    IF ~t.enabled THEN <<t, FALSE>>
    ELSE IF t.clock_source_external THEN <<t, FALSE>>
    ELSE <<[t EXCEPT !.prescaler = 0, !.counter = (t.counter + 1) % 65536],
           t.counter = 65535>>

\* Timer1::tick: <<timer after the tick, overflow>>
Timer1_tick(t) ==
    IF ~t.enabled THEN <<t, FALSE>>
    ELSE IF t.clock_source_external THEN <<t, FALSE>>
    ELSE IF t.prescaler + 1 >= t.prescaler_rate
         THEN <<[t EXCEPT !.prescaler = 0,
                          !.counter = (t.counter + 1) % 65536],
                t.counter = 65535>>
         ELSE <<[t EXCEPT !.prescaler = t.prescaler + 1], FALSE>>

(***************************************************************************)
(* wdt.rs                                                                  *)
(***************************************************************************)
NOMINAL_PERIOD == 18000

Wdt_new ==
    [ counter            |-> 0,
      enabled            |-> TRUE,
      prescaler          |-> 0,
      prescaler_rate     |-> 1,
      prescaler_assigned |-> FALSE,
      timeout_period     |-> NOMINAL_PERIOD ]

Wdt_clear(wd) == [wd EXCEPT !.counter = 0, !.prescaler = 0]

configure_prescaler(wd, option_reg) ==
    IF And(option_reg, \H08) # 0
    THEN [wd EXCEPT !.prescaler_assigned = TRUE,
                    !.prescaler_rate = Pow2(And(option_reg, \H07)),
                    !.timeout_period = NOMINAL_PERIOD * Pow2(And(option_reg, \H07)),
                    !.prescaler = 0]
    ELSE [wd EXCEPT !.prescaler_assigned = FALSE,
                    !.prescaler_rate = 1,
                    !.timeout_period = NOMINAL_PERIOD,
                    !.prescaler = 0]

\* Wdt::set_enabled
set_enabled(wd, enabled) == [wd EXCEPT !.enabled = enabled]

\* the counting part of Wdt::tick
Wdt_count(wd) ==
    IF wd.prescaler_assigned /\ wd.prescaler_rate > 1
    THEN IF wd.prescaler + 1 >= wd.prescaler_rate
         THEN [wd EXCEPT !.prescaler = 0, !.counter = wd.counter + 1]
         ELSE [wd EXCEPT !.prescaler = wd.prescaler + 1]
    ELSE [wd EXCEPT !.counter = wd.counter + 1]

\* Wdt::tick: <<wdt after the tick, timeout>>
Wdt_tick(wd) ==
    IF ~wd.enabled THEN <<wd, FALSE>>
    ELSE LET n == Wdt_count(wd)
         IN  IF n.counter >= n.timeout_period
             THEN <<[n EXCEPT !.counter = 0, !.prescaler = 0], TRUE>>
             ELSE <<n, FALSE>>

(***************************************************************************)
(* interrupt.rs                                                            *)
(***************************************************************************)
interrupt_vector == \H0004

InterruptController_new ==
    [ gie_saved |-> FALSE, interrupt_triggered |-> FALSE ]

\* a check that lets peripheral sources through without PEIE
check_interrupts_ignoring_peie(intcon, pie1, pir1) ==
    IF And(intcon, \H80) = 0 THEN <<FALSE, 0>>
    ELSE IF \/ And(intcon, \H20) # 0 /\ And(intcon, \H04) # 0
            \/ And(intcon, \H10) # 0 /\ And(intcon, \H02) # 0
            \/ And(intcon, \H08) # 0 /\ And(intcon, \H01) # 0
            \/ And(pie1, \HC9) # 0 /\ And(And(pie1, pir1), \HC9) # 0
         THEN <<TRUE, interrupt_vector>>
    ELSE <<FALSE, 0>>

\* InterruptController::check_interrupts: <<should_interrupt, vector>>
check_interrupts(intcon, pie1, pir1) ==
    IF And(intcon, \H80) = 0 THEN <<FALSE, 0>>
    ELSE IF And(intcon, \H20) # 0 /\ And(intcon, \H04) # 0
         THEN <<TRUE, interrupt_vector>>
    ELSE IF And(intcon, \H10) # 0 /\ And(intcon, \H02) # 0
         THEN <<TRUE, interrupt_vector>>
    ELSE IF And(intcon, \H08) # 0 /\ And(intcon, \H01) # 0
         THEN <<TRUE, interrupt_vector>>
    ELSE IF And(intcon, \H40) # 0
            /\ \/ And(pie1, \H01) # 0 /\ And(pir1, \H01) # 0
               \/ And(pie1, \H08) # 0 /\ And(pir1, \H08) # 0
               \/ And(pie1, \H40) # 0 /\ And(pir1, \H40) # 0
               \/ And(pie1, \H80) # 0 /\ And(pir1, \H80) # 0
         THEN <<TRUE, interrupt_vector>>
    ELSE <<FALSE, 0>>

enter_isr(ic) == [ic EXCEPT !.gie_saved = TRUE, !.interrupt_triggered = TRUE]

exit_isr(ic) == [ic EXCEPT !.interrupt_triggered = FALSE]

\* a controller that forgets it is in an interrupt routine
in_isr_forgetful(ic) == FALSE

in_isr(ic) == ic.interrupt_triggered

(***************************************************************************)
(* cpu.rs                                                                  *)
(***************************************************************************)
INDF == \H00
TMR0 == \H01
PCL == \H02
STATUS == \H03
FSR == \H04
GPIO == \H05
PCLATH == \H0A
INTCON == \H0B
PIR1 == \H0C
TMR1L == \H0E
TMR1H == \H0F
T1CON == \H10
OPTION_REG == \H81
TRISIO == \H85
PIE1 == \H8C
WPU == \H95

Cpu_new ==
    [ memory     |-> Memory_new,
      w          |-> 0,
      pc         |-> 0,
      cycles     |-> 0,
      gpio       |-> Gpio_new,
      timer0     |-> Timer0_new,
      timer1     |-> Timer1_new,
      interrupts |-> InterruptController_new,
      wdt        |-> Wdt_new,
      sleeping   |-> FALSE ]

get_bank(c) ==
    IF And(read_data(c.memory, STATUS), \H20) # 0 THEN 1 ELSE 0

read_register(c, address) ==
    CASE address = INDF   -> read_data(c.memory, read_data(c.memory, FSR))
      [] address = PCL    -> And(c.pc, \HFF)
      [] address = GPIO   -> read_gpio(c.gpio)
      [] address = TRISIO -> read_tris(c.gpio)
      [] address = WPU    -> read_wpu(c.gpio)
      [] address = TMR1L  -> read_low(c.timer1)
      [] address = TMR1H  -> read_high(c.timer1)
      [] OTHER            -> read_data_banked(c.memory, address, get_bank(c))

write_register(c, address, value) ==
    LET bank == get_bank(c)
    IN  CASE address = INDF ->
               [c EXCEPT !.memory =
                   write_data(c.memory, read_data(c.memory, FSR), value)]
          [] address = PCL ->
               [c EXCEPT !.pc = Or(read_data(c.memory, PCLATH) * 256, value)]
          [] address = TMR0 ->
               [c EXCEPT !.memory = write_data_banked(c.memory, address, value, bank)]
          [] address = GPIO ->
               IF bank = 0
               THEN [c EXCEPT !.gpio = write_gpio(c.gpio, value),
                              !.memory = write_data(c.memory, address, value)]
               ELSE [c EXCEPT !.gpio = write_tris(c.gpio, value),
                              !.memory = write_data_banked(c.memory, address, value, bank)]
          [] address = WPU ->
               [c EXCEPT !.gpio = write_wpu(c.gpio, value),
                         !.memory = write_data_banked(c.memory, address, value, bank)]
          [] address = TMR1L ->
               [c EXCEPT !.timer1 = write_low(c.timer1, value)]
          [] address = TMR1H ->
               [c EXCEPT !.timer1 = write_high(c.timer1, value)]
          [] address = T1CON ->
               [c EXCEPT !.timer1 = configure_from_t1con(c.timer1, value),
                         !.memory = write_data(c.memory, address, value)]
          [] address = OPTION_REG ->
               [c EXCEPT !.timer0 = Timer0_configure_from_option(c.timer0, value),
                         !.memory = write_data_banked(c.memory, address, value, bank)]
          [] OTHER ->
               [c EXCEPT !.memory = write_data_banked(c.memory, address, value, bank)]

\* a reset that leaves W alone
Cpu_reset_keeping_w(c) ==
    LET c0 == [c EXCEPT !.pc = 0, !.cycles = 0,
                        !.memory = Memory_reset(c.memory),
                        !.gpio = Gpio_new,
                        !.timer0 = Timer0_new,
                        !.timer1 = Timer1_new,
                        !.interrupts = InterruptController_new,
                        !.wdt = Wdt_new,
                        !.sleeping = FALSE]
        c1 == write_register(c0, STATUS, \H18)
        c2 == write_register(c1, PCLATH, \H00)
        c3 == write_register(c2, INTCON, \H00)
        c4 == write_register(c3, TRISIO, \H3F)
        c5 == write_register(c4, PIE1, \H00)
    IN  write_register(c5, PIR1, \H00)

Cpu_reset(c) ==
    LET c0 == [c EXCEPT !.pc = 0, !.w = 0, !.cycles = 0,
                        !.memory = Memory_reset(c.memory),
                        !.gpio = Gpio_new,
                        !.timer0 = Timer0_new,
                        !.timer1 = Timer1_new,
                        !.interrupts = InterruptController_new,
                        !.wdt = Wdt_new,
                        !.sleeping = FALSE]
        c1 == write_register(c0, STATUS, \H18)
        c2 == write_register(c1, PCLATH, \H00)
        c3 == write_register(c2, INTCON, \H00)
        c4 == write_register(c3, TRISIO, \H3F)
        c5 == write_register(c4, PIE1, \H00)
    IN  write_register(c5, PIR1, \H00)

set_pc(c, address) == [c EXCEPT !.pc = And(address, \H1FFF)]

increment_pc(c) == [c EXCEPT !.pc = And(c.pc + 1, \H1FFF)]

push_pc(c) == [c EXCEPT !.memory = push_stack(c.memory, c.pc)]

\* an accounting that charges every cycle twice
add_cycles_twice(c, n) == [c EXCEPT !.cycles = c.cycles + 2 * n]

add_cycles(c, n) == [c EXCEPT !.cycles = c.cycles + n]

fetch_instruction(pm, c) == read_program(pm, c.pc)

\* servicing that leaves GIE as it found it
check_and_handle_interrupts_keeping_gie(c) ==
    LET intcon == read_register(c, INTCON)
        pie1   == read_register(c, PIE1)
        pir1   == read_register(c, PIR1)
        chk    == check_interrupts(intcon, pie1, pir1)
    IN  IF chk[1] /\ ~in_isr(c.interrupts)
        THEN LET c1 == push_pc(c)
                 c3 == set_pc(c1, chk[2])
             IN  <<[c3 EXCEPT !.interrupts = enter_isr(c3.interrupts)], TRUE>>
        ELSE <<c, FALSE>>

\* Cpu::check_and_handle_interrupts: <<cpu after, interrupt serviced>>
check_and_handle_interrupts(c) ==
    LET intcon == read_register(c, INTCON)
        pie1   == read_register(c, PIE1)
        pir1   == read_register(c, PIR1)
        chk    == check_interrupts(intcon, pie1, pir1)
    IN  IF chk[1] /\ ~in_isr(c.interrupts)
        THEN LET c1 == push_pc(c)
                 c2 == write_register(c1, INTCON,
                                      And(read_register(c1, INTCON), \H7F))
                 c3 == set_pc(c2, chk[2])
             IN  <<[c3 EXCEPT !.interrupts = enter_isr(c3.interrupts)], TRUE>>
        ELSE <<c, FALSE>>

\* a SLEEP that clears TO only
enter_sleep_keeping_pd(c) ==
    LET c1 == [c EXCEPT !.sleeping = TRUE]
    IN  write_register(c1, STATUS, And(read_register(c1, STATUS), \HEF))

enter_sleep(c) ==
    LET c1 == [c EXCEPT !.sleeping = TRUE]
    IN  write_register(c1, STATUS, And(read_register(c1, STATUS), \HE7))

\* a wake-up that always reports a WDT timeout
wake_up_as_timeout(c, by_interrupt) ==
    LET c1 == [c EXCEPT !.sleeping = FALSE]
        status == read_register(c1, STATUS)
    IN  write_register(c1, STATUS, And(Or(status, \H08), \HEF))

\* a wake-up that always reports an interrupt
wake_up_as_interrupt(c, by_interrupt) ==
    LET c1 == [c EXCEPT !.sleeping = FALSE]
        status == read_register(c1, STATUS)
    IN  write_register(c1, STATUS, And(Or(status, \H10), \HF7))

wake_up(c, by_interrupt) ==
    LET c1 == [c EXCEPT !.sleeping = FALSE]
        status == read_register(c1, STATUS)
    IN  IF by_interrupt
        THEN write_register(c1, STATUS, And(Or(status, \H10), \HF7))
        ELSE write_register(c1, STATUS, And(Or(status, \H08), \HEF))

set_status_bit(c, bit) ==
    write_register(c, STATUS, Or(read_register(c, STATUS), Pow2(bit)))

clear_status_bit(c, bit) ==
    write_register(c, STATUS, And(read_register(c, STATUS), Not8(Pow2(bit))))

test_status_bit(c, bit) == And(read_data(c.memory, STATUS), Pow2(bit)) # 0

update_zero_flag(c, result) ==
    IF result = 0 THEN set_status_bit(c, 2) ELSE clear_status_bit(c, 2)

update_carry_flag(c, carry) ==
    IF carry THEN set_status_bit(c, 0) ELSE clear_status_bit(c, 0)

update_digit_carry_flag(c, dc) ==
    IF dc THEN set_status_bit(c, 1) ELSE clear_status_bit(c, 1)

(***************************************************************************)
(* instruction.rs                                                          *)
(***************************************************************************)
Instr(op, f, d, b, k) == [op |-> op, f |-> f, d |-> d, b |-> b, k |-> k]

DecodeErr == Instr("ERR", 0, 0, 0, 0)

\* the byte-oriented group: 00xxxx dfff ffff
decode_byte_oriented(word) ==
    LET d  == And(Shr(word, 7), \H01)
        f  == And(word, \H7F)
        oc == And(Shr(word, 8), \H3F)
    IN  CASE oc = \H07 -> Instr("ADDWF", f, d, 0, 0)
          [] oc = \H05 -> Instr("ANDWF", f, d, 0, 0)
          [] oc = \H01 /\ d = 1 -> Instr("CLRF", f, 0, 0, 0)
          [] oc = \H01 /\ d = 0 /\ f = 0 -> Instr("CLRW", 0, 0, 0, 0)
          [] oc = \H09 -> Instr("COMF", f, d, 0, 0)
          [] oc = \H03 -> Instr("DECF", f, d, 0, 0)
          [] oc = \H0B -> Instr("DECFSZ", f, d, 0, 0)
          [] oc = \H0A -> Instr("INCF", f, d, 0, 0)
          [] oc = \H0F -> Instr("INCFSZ", f, d, 0, 0)
          [] oc = \H04 -> Instr("IORWF", f, d, 0, 0)
          [] oc = \H08 -> Instr("MOVF", f, d, 0, 0)
          [] oc = \H00 /\ d = 1 -> Instr("MOVWF", f, 0, 0, 0)
          [] oc = \H00 /\ d = 0 /\ f = 0 -> Instr("NOP", 0, 0, 0, 0)
          [] oc = \H0D -> Instr("RLF", f, d, 0, 0)
          [] oc = \H0C -> Instr("RRF", f, d, 0, 0)
          [] oc = \H02 -> Instr("SUBWF", f, d, 0, 0)
          [] oc = \H0E -> Instr("SWAPF", f, d, 0, 0)
          [] oc = \H06 -> Instr("XORWF", f, d, 0, 0)
          [] OTHER -> DecodeErr

\* the bit-oriented group: 01bb bfff ffff
decode_bit_oriented(word) ==
    LET b   == And(Shr(word, 7), \H07)
        f   == And(word, \H7F)
        sel == And(Shr(word, 10), \H03)
    IN  CASE sel = 0 -> Instr("BCF", f, 0, b, 0)
          [] sel = 1 -> Instr("BSF", f, 0, b, 0)
          [] sel = 2 -> Instr("BTFSC", f, 0, b, 0)
          [] OTHER   -> Instr("BTFSS", f, 0, b, 0)

\* the 8-bit literal group
decode_literal(word) ==
    LET k      == And(word, \HFF)
        opcode == And(Shr(word, 8), \H3F)
    IN  CASE opcode = \H3E -> Instr("ADDLW", 0, 0, 0, k)
          [] opcode = \H39 -> Instr("ANDLW", 0, 0, 0, k)
          [] opcode = \H38 -> Instr("IORLW", 0, 0, 0, k)
          [] opcode \in \H30 .. \H33 -> Instr("MOVLW", 0, 0, 0, k)
          [] opcode = \H3C -> Instr("SUBLW", 0, 0, 0, k)
          [] opcode = \H3A -> Instr("XORLW", 0, 0, 0, k)
          [] opcode \in \H34 .. \H37 -> Instr("RETLW", 0, 0, 0, k)
          [] OTHER -> DecodeErr

\* InstructionDecoder::decode; op = "ERR" stands for Err(..)
decode(word) ==
    LET top3   == And(Shr(word, 11), \H07)
        opcode == And(Shr(word, 8), \H3F)
    IN  CASE word = \H0064 -> Instr("CLRWDT", 0, 0, 0, 0)
          [] word = \H0009 -> Instr("RETFIE", 0, 0, 0, 0)
          [] word = \H0008 -> Instr("RETURN", 0, 0, 0, 0)
          [] word = \H0063 -> Instr("SLEEP", 0, 0, 0, 0)
          [] OTHER ->
               IF top3 = 4 THEN Instr("CALL", 0, 0, 0, And(word, \H7FF))
               ELSE IF top3 = 5 THEN Instr("GOTO", 0, 0, 0, And(word, \H7FF))
               ELSE IF And(opcode, \H30) = \H00 THEN decode_byte_oriented(word)
               ELSE IF And(opcode, \H30) = \H10 THEN decode_bit_oriented(word)
               ELSE decode_literal(word)

(***************************************************************************)
(* executor.rs: every operator returns <<cpu after, cycles>>               *)
(***************************************************************************)
\* the common tail "if d == 0 { write_w } else { write_register(f) }"
write_dest(c, f, d, result) ==
    IF d = 0 THEN [c EXCEPT !.w = result] ELSE write_register(c, f, result)

addwf(c, f, d) ==
    LET w      == c.w
        val    == read_register(c, f)
        result == WrapAdd8(w, val)
        c1     == update_carry_flag(c, w + val > \HFF)
        c2     == update_digit_carry_flag(c1, And(w, \H0F) + And(val, \H0F) > \H0F)
        c3     == update_zero_flag(c2, result)
    IN  <<write_dest(c3, f, d, result), 1>>

andwf(c, f, d) ==
    LET result == And(c.w, read_register(c, f))
    IN  <<write_dest(update_zero_flag(c, result), f, d, result), 1>>

clrf(c, f) == <<set_status_bit(write_register(c, f, 0), 2), 1>>

clrw(c) == <<set_status_bit([c EXCEPT !.w = 0], 2), 1>>

comf(c, f, d) ==
    LET result == Not8(read_register(c, f))
    IN  <<write_dest(update_zero_flag(c, result), f, d, result), 1>>

decf(c, f, d) ==
    LET result == WrapSub8(read_register(c, f), 1)
    IN  <<write_dest(update_zero_flag(c, result), f, d, result), 1>>

\* a DECFSZ that tests the value it read, not the value it wrote
decfsz_testing_old_value(c, f, d) ==
    LET val    == read_register(c, f)
        c1     == write_dest(c, f, d, WrapSub8(val, 1))
    IN  IF val = 0 THEN <<increment_pc(c1), 2>> ELSE <<c1, 1>>

decfsz(c, f, d) ==
    LET result == WrapSub8(read_register(c, f), 1)
        c1     == write_dest(c, f, d, result)
    IN  IF result = 0 THEN <<increment_pc(c1), 2>> ELSE <<c1, 1>>

incf(c, f, d) ==
    LET result == WrapAdd8(read_register(c, f), 1)
    IN  <<write_dest(update_zero_flag(c, result), f, d, result), 1>>

incfsz(c, f, d) ==
    LET result == WrapAdd8(read_register(c, f), 1)
        c1     == write_dest(c, f, d, result)
    IN  IF result = 0 THEN <<increment_pc(c1), 2>> ELSE <<c1, 1>>

iorwf(c, f, d) ==
    LET result == Or(c.w, read_register(c, f))
    IN  <<write_dest(update_zero_flag(c, result), f, d, result), 1>>

movf(c, f, d) ==
    LET val == read_register(c, f)
    IN  <<write_dest(update_zero_flag(c, val), f, d, val), 1>>

movwf(c, f) == <<write_register(c, f, c.w), 1>>

rlf(c, f, d) ==
    LET val       == read_register(c, f)
        old_carry == IF test_status_bit(c, 0) THEN 1 ELSE 0
        result    == Or(Shl8(val, 1), old_carry)
        c1        == update_carry_flag(c, And(val, \H80) # 0)
    IN  <<write_dest(c1, f, d, result), 1>>

rrf(c, f, d) ==
    LET val       == read_register(c, f)
        old_carry == IF test_status_bit(c, 0) THEN \H80 ELSE 0
        result    == Or(Shr(val, 1), old_carry)
        c1        == update_carry_flag(c, And(val, \H01) # 0)
    IN  <<write_dest(c1, f, d, result), 1>>

subwf(c, f, d) ==
    LET w      == c.w
        val    == read_register(c, f)
        result == WrapSub8(val, w)
        c1     == update_carry_flag(c, val >= w)
        c2     == update_digit_carry_flag(c1, And(val, \H0F) >= And(w, \H0F))
        c3     == update_zero_flag(c2, result)
    IN  <<write_dest(c3, f, d, result), 1>>

swapf(c, f, d) ==
    LET val    == read_register(c, f)
        result == Or(Shl8(val, 4), Shr(val, 4))
    IN  <<write_dest(c, f, d, result), 1>>

xorwf(c, f, d) ==
    LET result == Xor(c.w, read_register(c, f))
    IN  <<write_dest(update_zero_flag(c, result), f, d, result), 1>>

bcf(c, f, b) ==
    <<write_register(c, f, And(read_register(c, f), Not8(Pow2(b)))), 1>>

bsf(c, f, b) ==
    <<write_register(c, f, Or(read_register(c, f), Pow2(b))), 1>>

btfsc(c, f, b) ==
    IF And(read_register(c, f), Pow2(b)) = 0
    THEN <<increment_pc(c), 2>> ELSE <<c, 1>>

btfss(c, f, b) ==
    IF And(read_register(c, f), Pow2(b)) # 0
    THEN <<increment_pc(c), 2>> ELSE <<c, 1>>

addlw(c, k) ==
    LET w      == c.w
        result == WrapAdd8(w, k)
        c1     == update_carry_flag(c, w + k > \HFF)
        c2     == update_digit_carry_flag(c1, And(w, \H0F) + And(k, \H0F) > \H0F)
        c3     == update_zero_flag(c2, result)
    IN  <<[c3 EXCEPT !.w = result], 1>>

andlw(c, k) ==
    LET result == And(c.w, k)
    IN  <<[update_zero_flag(c, result) EXCEPT !.w = result], 1>>

\* a call that leaves the upper PC bits to the operand alone
call_without_pclath(c, k) == <<set_pc(push_pc(c), k), 2>>

call(c, k) ==
    LET c1     == push_pc(c)
        pclath == read_register(c1, PCLATH)
    IN  <<set_pc(c1, Or(And(pclath, \H18) * 256, k)), 2>>

clrwdt(c) ==
    LET c1 == [c EXCEPT !.wdt = Wdt_clear(c.wdt)]
    IN  <<write_register(c1, STATUS, Or(read_register(c1, STATUS), \H18)), 1>>

goto(c, k) ==
    <<set_pc(c, Or(And(read_register(c, PCLATH), \H18) * 256, k)), 2>>

iorlw(c, k) ==
    LET result == Or(c.w, k)
    IN  <<[update_zero_flag(c, result) EXCEPT !.w = result], 1>>

movlw(c, k) == <<[c EXCEPT !.w = k], 1>>

\* a return from interrupt that does not set GIE again
retfie_leaving_gie(c) ==
    LET addr == pop_stack_value(c.memory)
        c1   == set_pc([c EXCEPT !.memory = pop_stack(c.memory)], addr)
    IN  <<[c1 EXCEPT !.interrupts = exit_isr(c1.interrupts)], 2>>

retfie(c) ==
    LET addr == pop_stack_value(c.memory)
        c1   == set_pc([c EXCEPT !.memory = pop_stack(c.memory)], addr)
        c2   == write_register(c1, INTCON, Or(read_register(c1, INTCON), \H80))
    IN  <<[c2 EXCEPT !.interrupts = exit_isr(c2.interrupts)], 2>>

retlw(c, k) ==
    LET c1   == [c EXCEPT !.w = k]
        addr == pop_stack_value(c1.memory)
    IN  <<set_pc([c1 EXCEPT !.memory = pop_stack(c1.memory)], addr), 2>>

Executor_ret(c) ==
    LET addr == pop_stack_value(c.memory)
    IN  <<set_pc([c EXCEPT !.memory = pop_stack(c.memory)], addr), 2>>

sleep(c) == <<enter_sleep(c), 1>>

sublw(c, k) ==
    LET w      == c.w
        result == WrapSub8(k, w)
        c1     == update_carry_flag(c, k >= w)
        c2     == update_digit_carry_flag(c1, And(k, \H0F) >= And(w, \H0F))
        c3     == update_zero_flag(c2, result)
    IN  <<[c3 EXCEPT !.w = result], 1>>

xorlw(c, k) ==
    LET result == Xor(c.w, k)
    IN  <<[update_zero_flag(c, result) EXCEPT !.w = result], 1>>

execute(c, i) ==
    CASE i.op = "ADDWF"  -> addwf(c, i.f, i.d)
      [] i.op = "ANDWF"  -> andwf(c, i.f, i.d)
      [] i.op = "CLRF"   -> clrf(c, i.f)
      [] i.op = "CLRW"   -> clrw(c)
      [] i.op = "COMF"   -> comf(c, i.f, i.d)
      [] i.op = "DECF"   -> decf(c, i.f, i.d)
      [] i.op = "DECFSZ" -> decfsz(c, i.f, i.d)
      [] i.op = "INCF"   -> incf(c, i.f, i.d)
      [] i.op = "INCFSZ" -> incfsz(c, i.f, i.d)
      [] i.op = "IORWF"  -> iorwf(c, i.f, i.d)
      [] i.op = "MOVF"   -> movf(c, i.f, i.d)
      [] i.op = "MOVWF"  -> movwf(c, i.f)
      [] i.op = "NOP"    -> <<c, 1>>
      [] i.op = "RLF"    -> rlf(c, i.f, i.d)
      [] i.op = "RRF"    -> rrf(c, i.f, i.d)
      [] i.op = "SUBWF"  -> subwf(c, i.f, i.d)
      [] i.op = "SWAPF"  -> swapf(c, i.f, i.d)
      [] i.op = "XORWF"  -> xorwf(c, i.f, i.d)
      [] i.op = "BCF"    -> bcf(c, i.f, i.b)
      [] i.op = "BSF"    -> bsf(c, i.f, i.b)
      [] i.op = "BTFSC"  -> btfsc(c, i.f, i.b)
      [] i.op = "BTFSS"  -> btfss(c, i.f, i.b)
      [] i.op = "ADDLW"  -> addlw(c, i.k)
      [] i.op = "ANDLW"  -> andlw(c, i.k)
      [] i.op = "CALL"   -> call(c, i.k)
      [] i.op = "CLRWDT" -> clrwdt(c)
      [] i.op = "GOTO"   -> goto(c, i.k)
      [] i.op = "IORLW"  -> iorlw(c, i.k)
      [] i.op = "MOVLW"  -> movlw(c, i.k)
      [] i.op = "RETFIE" -> retfie(c)
      [] i.op = "RETLW"  -> retlw(c, i.k)
      [] i.op = "RETURN" -> Executor_ret(c)
      [] i.op = "SLEEP"  -> sleep(c)
      [] i.op = "SUBLW"  -> sublw(c, i.k)
      [] i.op = "XORLW"  -> xorlw(c, i.k)

(***************************************************************************)
(* simulator.rs: Simulator::step as a function of the simulator's fields.  *)
(* The result carries the CPU after the step, Ok(cycles) or the error,     *)
(* the growth of the statistics, and what the step did on the way.         *)
(***************************************************************************)
StepResult(c, kind, cycles, instrs, scycles, obs) ==
    [ cpu |-> c, kind |-> kind, cycles |-> cycles,
      d_instructions |-> instrs, d_cycles |-> scycles, obs |-> obs ]

\* what a step did: the branch taken, whether it woke the CPU by interrupt,
\* whether it serviced an interrupt, the address and instruction fetched,
\* the peripheral ticks made and what they reported
\* the registers and stack a caller can observe on a CPU
observe(c) ==
    [ pc     |-> c.pc,
      depth  |-> c.memory.stack_pointer,
      top    |-> pop_stack_value(c.memory),
      intcon |-> c.memory.data_memory[INTCON],
      pir1   |-> c.memory.data_memory[PIR1],
      pie1   |-> c.memory.data_memory[PIE1],
      status |-> c.memory.data_memory[STATUS],
      in_isr |-> in_isr(c.interrupts) ]

NoObs ==
    [ branch |-> "none", woke |-> FALSE, interrupted |-> FALSE,
      fetch_pc |-> -1, op |-> "NONE", ticks |-> 0,
      tmr0_overflow |-> FALSE, tmr1_overflow |-> FALSE,
      wdt_timeout |-> FALSE, serviced |-> observe(Cpu_new) ]

\* one iteration of the "for _ in 0..cycles" loop of Simulator::step
tick_once(c) ==
    LET t0 == Timer0_tick(c.timer0)
        t1 == Timer1_tick(c.timer1)
        wd == Wdt_tick(c.wdt)
        c1 == [c EXCEPT !.timer0 = t0[1], !.timer1 = t1[1], !.wdt = wd[1]]
    IN  IF wd[2] /\ ~c1.sleeping
        THEN [ cpu |-> Cpu_reset(c1), reset |-> TRUE,
               tmr0_overflow |-> t0[2], tmr1_overflow |-> t1[2], wdt_timeout |-> TRUE ]
        ELSE LET c2 == IF t0[2]
                       THEN write_register(c1, INTCON,
                                           Or(read_register(c1, INTCON), \H04))
                       ELSE c1
                 c3 == IF t1[2]
                       THEN write_register(c2, PIR1,
                                           Or(read_register(c2, PIR1), \H01))
                       ELSE c2
             IN  [ cpu |-> c3, reset |-> FALSE,
                   tmr0_overflow |-> t0[2], tmr1_overflow |-> t1[2],
                   wdt_timeout |-> wd[2] ]

\* the whole loop: stops at the first WDT-induced reset
RECURSIVE tick_loop(_, _)
tick_loop(c, n) ==
    IF n = 0
    THEN [ cpu |-> c, reset |-> FALSE, ticks |-> 0, tmr0_overflow |-> FALSE,
           tmr1_overflow |-> FALSE, wdt_timeout |-> FALSE ]
    ELSE LET one == tick_once(c)
         IN  IF one.reset
             THEN [ cpu |-> one.cpu, reset |-> TRUE, ticks |-> 1,
                    tmr0_overflow |-> one.tmr0_overflow,
                    tmr1_overflow |-> one.tmr1_overflow,
                    wdt_timeout |-> TRUE ]
             ELSE LET rest == tick_loop(one.cpu, n - 1)
                  IN  [ cpu |-> rest.cpu, reset |-> rest.reset,
                        ticks |-> rest.ticks + 1,
                        tmr0_overflow |-> one.tmr0_overflow \/ rest.tmr0_overflow,
                        tmr1_overflow |-> one.tmr1_overflow \/ rest.tmr1_overflow,
                        wdt_timeout |-> one.wdt_timeout \/ rest.wdt_timeout ]

\* a step that looks for interrupts once more after its ticks
step_account_rechecking(c1, interrupted, instruction, woke, cycles, tl) ==
    LET obs == [NoObs EXCEPT !.woke = woke, !.interrupted = interrupted,
                             !.fetch_pc = c1.pc, !.op = instruction.op,
                             !.serviced = observe(c1), !.ticks = tl.ticks,
                             !.tmr0_overflow = tl.tmr0_overflow,
                             !.tmr1_overflow = tl.tmr1_overflow,
                             !.wdt_timeout = tl.wdt_timeout]
        total_cycles == IF interrupted THEN cycles + 2 ELSE cycles
    IN  IF tl.reset
        THEN StepResult(tl.cpu, "ok", cycles, 0, 0,
                        [obs EXCEPT !.branch = "wdt_reset"])
        ELSE StepResult(add_cycles(check_and_handle_interrupts(tl.cpu)[1],
                                   total_cycles),
                        "ok", total_cycles, 1, total_cycles,
                        [obs EXCEPT !.branch = "exec"])

\* Simulator::step from "Tick timers and WDT" on: the loop has run (tl);
\* c1, interrupted and instruction are the locals of the step so far
step_account(c1, interrupted, instruction, woke, cycles, tl) ==
    LET obs == [NoObs EXCEPT !.woke = woke, !.interrupted = interrupted,
                             !.fetch_pc = c1.pc, !.op = instruction.op,
                             !.serviced = observe(c1), !.ticks = tl.ticks,
                             !.tmr0_overflow = tl.tmr0_overflow,
                             !.tmr1_overflow = tl.tmr1_overflow,
                             !.wdt_timeout = tl.wdt_timeout]
        total_cycles == IF interrupted THEN cycles + 2 ELSE cycles
    IN  IF tl.reset
        THEN StepResult(tl.cpu, "ok", cycles, 0, 0,
                        [obs EXCEPT !.branch = "wdt_reset"])
        ELSE StepResult(add_cycles(tl.cpu, total_cycles), "ok", total_cycles,
                        1, total_cycles, [obs EXCEPT !.branch = "exec"])

\* a tick loop that also runs for the two cycles of a serviced interrupt
step_tick_charging_interrupt(c1, interrupted, instruction, woke, ex) ==
    step_account(c1, interrupted, instruction, woke, ex[2],
                 tick_loop(ex[1], IF interrupted THEN ex[2] + 2 ELSE ex[2]))

\* ... from the tick loop on: ex is what Executor::execute returned
step_tick(c1, interrupted, instruction, woke, ex) ==
    step_account(c1, interrupted, instruction, woke, ex[2],
                 tick_loop(ex[1], ex[2]))

\* ... from the decode on: the error return, or increment_pc and execute
step_decoded(c1, interrupted, instruction, woke) ==
    IF instruction.op = "ERR"
    THEN StepResult(c1, "decode_err", 0, 0, 0,
                    [NoObs EXCEPT !.branch = "decode_err", !.woke = woke,
                                  !.interrupted = interrupted,
                                  !.fetch_pc = c1.pc, !.op = "ERR",
                                  !.serviced = observe(c1)])
    ELSE step_tick(c1, interrupted, instruction, woke,
                   execute(increment_pc(c1), instruction))

\* ... from the fetch on: hi is what check_and_handle_interrupts returned
step_fetch(hi, pm, woke) ==
    step_decoded(hi[1], hi[2], decode(fetch_instruction(pm, hi[1])), woke)

\* "Normal execution (not sleeping or just woke up)" of Simulator::step
step_execute(c, pm, woke) ==
    step_fetch(check_and_handle_interrupts(c), pm, woke)

\* Simulator::step
Simulator_step(st, c, pm) ==
    IF st = "Halted"
    THEN StepResult(c, "halted", 0, 0, 0, [NoObs EXCEPT !.branch = "halted"])
    ELSE IF c.sleeping
    THEN LET wd == Wdt_tick(c.wdt)
             c1 == [c EXCEPT !.wdt = wd[1]]
         IN  IF wd[2]
             THEN StepResult(wake_up(c1, FALSE), "ok", 1, 0, 0,
                             [NoObs EXCEPT !.branch = "wdt_wake", !.ticks = 1,
                                           !.wdt_timeout = TRUE])
             ELSE IF check_interrupts(read_register(c1, INTCON),
                                      read_register(c1, PIE1),
                                      read_register(c1, PIR1))[1]
                  THEN step_execute(wake_up(c1, TRUE), pm, TRUE)
                  ELSE StepResult(add_cycles(c1, 1), "ok", 1, 0, 0,
                                  [NoObs EXCEPT !.branch = "asleep", !.ticks = 1])
    ELSE step_execute(c, pm, FALSE)

(***************************************************************************)
(* Bounds of the model and the inputs it enumerates.                       *)
(***************************************************************************)
MaxCycles == 22        \* Spec: steps are taken while the counters are below

MaxHost == 1           \* Spec: host-side register writes between steps

MaxLongSlack == 6      \* SpecLong: cycles explored past the WDT period

\* ISR that re-enables GIE itself, main code raising T0IF by software
ProgIsr ==
    << \H2808,   \* 0: GOTO 8
       \H0000, \H0000, \H0000,
       \H0000,   \* 4: NOP
       \H178B,   \* 5: BSF INTCON,7
       \H0000,   \* 6: NOP
       \H0009,   \* 7: RETFIE
       \H30A4,   \* 8: MOVLW 0xA4
       \H008B,   \* 9: MOVWF INTCON   (GIE, T0IE, T0IF)
       \H280A >> \* 10: GOTO 10

\* computed jump with PCLATH = 0x20
ProgPcl ==
    << \H3020,   \* 0: MOVLW 0x20
       \H008A,   \* 1: MOVWF PCLATH
       \H0082 >> \* 2: MOVWF PCL

\* Timer1 overflowing in the step that writes PCL, in Bank 1
ProgTmr1 ==
    << \H3020,   \* 0: MOVLW 0x20
       \H008A,   \* 1: MOVWF PCLATH
       \H30C0,   \* 2: MOVLW 0xC0
       \H008B,   \* 3: MOVWF INTCON   (GIE, PEIE)
       \H30FF,   \* 4: MOVLW 0xFF
       \H008F,   \* 5: MOVWF TMR1H
       \H30FE,   \* 6: MOVLW 0xFE
       \H008E,   \* 7: MOVWF TMR1L
       \H1683,   \* 8: BSF STATUS,5   (RP0)
       \H3001,   \* 9: MOVLW 0x01
       \H0090,   \* 10: MOVWF T1CON   (TMR1ON)
       \H0082 >> \* 11: MOVWF PCL

\* unbounded recursion, ISR that only returns
ProgCall ==
    << \H2806,   \* 0: GOTO 6
       \H0000, \H0000, \H0000,
       \H0009,   \* 4: RETFIE
       \H0000,
       \H2006 >> \* 6: CALL 6

\* a word that decodes to nothing at the interrupt vector
ProgBad ==
    << \H30A4,   \* 0: MOVLW 0xA4
       \H008B,   \* 1: MOVWF INTCON
       \H0000, \H0000,
       \H0001 >> \* 4: not an instruction

\* SLEEP, with the same undecodable word at the vector
ProgSleep ==
    << \H0063,   \* 0: SLEEP
       \H0000, \H0000, \H0000,
       \H0001 >> \* 4: not an instruction

\* returns taken on an empty return stack
ProgPop ==
    << \H1F8B,   \* 0: BTFSS INTCON,7
       \H0009,   \* 1: RETFIE
       \H3407,   \* 2: RETLW 7
       \H0008 >> \* 3: RETURN

Programs == {ProgIsr, ProgPcl, ProgTmr1, ProgCall, ProgBad, ProgSleep, ProgPop}

\* host-side writes through Cpu::write_register, as the demo programs make
HostWrites == { <<INTCON, \HA4>>, <<PIE1, \H01>> }

(***************************************************************************)
(* The state machine.                                                      *)
(***************************************************************************)
\* the interrupt in service, as a caller watching the steps would note it:
\* PC and stack depth when it was serviced, the depth right after, and
\* whether the return stack has been left alone since
NoIsr == [ open |-> FALSE, pc |-> 0, depth |-> 0, at |-> 0, untouched |-> FALSE ]

\* what the host has done so far
NoHost == [ writes |-> 0, reset |-> FALSE ]

Ret(op, kind, cycles, obs, isr) ==
    [ op |-> op, kind |-> kind, cycles |-> cycles, obs |-> obs, isr |-> isr ]

NoStats == [ instructions_executed |-> 0, cycles_elapsed |-> 0 ]

\* Simulator::new
Init ==
    /\ cpu = Cpu_new
    /\ program_memory = << >>
    /\ state = "Paused"
    /\ stats = NoStats
    /\ breakpoints = << >>
    /\ ret = Ret("new", "none", 0, NoObs, NoIsr)
    /\ hist = NoIsr
    /\ host = NoHost
    /\ q = << >>

\* Simulator::load_program, once, on the zeroed program memory
LoadProgram ==
    /\ program_memory = << >>
    /\ \E p \in Programs : program_memory' = load_program(p)
    /\ ret' = Ret("load_program", "none", 0, NoObs, NoIsr)
    /\ UNCHANGED <<cpu, state, stats, breakpoints, hist, host, q>>

\* Simulator::reset
Reset ==
    /\ cpu' = Cpu_reset(cpu)
    /\ state' = "Paused"
    /\ stats' = NoStats
    /\ ret' = Ret("reset", "none", 0, NoObs, NoIsr)
    /\ hist' = NoIsr
    /\ host' = [host EXCEPT !.reset = TRUE]
    /\ UNCHANGED <<program_memory, breakpoints, q>>

\* Simulator::halt
Halt ==
    /\ state # "Halted"
    /\ state' = "Halted"
    /\ ret' = Ret("halt", "none", 0, NoObs, NoIsr)
    /\ UNCHANGED <<cpu, program_memory, stats, breakpoints, hist, host, q>>

\* sim.cpu_mut().write_register(address, value) between two steps
HostWrite ==
    /\ host.writes < MaxHost
    /\ program_memory # << >>
    /\ \E wr \in HostWrites : cpu' = write_register(cpu, wr[1], wr[2])
    /\ host' = [host EXCEPT !.writes = host.writes + 1]
    /\ ret' = Ret("write_register", "none", 0, NoObs, NoIsr)
    /\ UNCHANGED <<program_memory, state, stats, breakpoints, hist, q>>

StackOps == {"CALL", "RETURN", "RETLW", "RETFIE"}

\* the interrupt in service after a step that began with h in service
isr_entered(c, r, h) ==
    IF r.obs.interrupted
    THEN [ open |-> TRUE, pc |-> c.pc, depth |-> c.memory.stack_pointer,
           at |-> r.obs.serviced.depth, untouched |-> TRUE ]
    ELSE h

isr_after(c, r, h) ==
    IF r.obs.branch = "wdt_reset" \/ r.obs.op = "RETFIE"
    THEN NoIsr
    ELSE IF r.obs.branch = "exec" /\ r.obs.op \in StackOps
    THEN [isr_entered(c, r, h) EXCEPT !.untouched = FALSE]
    ELSE isr_entered(c, r, h)

\* the simulator after a step that returned r
StepCommit(r) ==
    /\ cpu' = r.cpu
    /\ stats' = [ instructions_executed |->
                      stats.instructions_executed + r.d_instructions,
                  cycles_elapsed |-> stats.cycles_elapsed + r.d_cycles ]
    /\ ret' = Ret("step", r.kind, r.cycles, r.obs,
                  IF r.obs.op = "RETFIE" THEN isr_entered(cpu, r, hist)
                  ELSE NoIsr)
    /\ hist' = isr_after(cpu, r, hist)

\* Simulator::step, while the counters are below the bound
StepUpTo(bound) ==
    /\ cpu.cycles < bound
    /\ stats.cycles_elapsed < bound
    /\ StepCommit(Simulator_step(state, cpu, program_memory))
    /\ UNCHANGED <<program_memory, state, breakpoints, host, q>>

Step == StepUpTo(MaxCycles)

Next == LoadProgram \/ Reset \/ Halt \/ HostWrite \/ Step

Spec == Init /\ [][Next]_vars

(***************************************************************************)
(* Long runs: programs left running until the watchdog period elapses.     *)
(***************************************************************************)
\* straight-line NOPs: the WDT times out on a one-cycle instruction
LongNop == << \H0000 >>

\* an ISR that never returns: the WDT times out inside it, on the first
\* cycle of a two-cycle instruction
LongIsrSpin ==
    << \H2805,   \* 0: GOTO 5
       \H0000, \H0000, \H0000,
       \H2804,   \* 4: GOTO 4
       \H0000,   \* 5: NOP
       \H30A4,   \* 6: MOVLW 0xA4
       \H008B >> \* 7: MOVWF INTCON   (GIE, T0IE, T0IF)

\* Timer0 interrupts served and acknowledged until the WDT times out
LongIsr ==
    << \H2806,   \* 0: GOTO 6
       \H0000, \H0000, \H0000,
       \H110B,   \* 4: BCF INTCON,2
       \H0009,   \* 5: RETFIE
       \H30A0,   \* 6: MOVLW 0xA0
       \H008B,   \* 7: MOVWF INTCON   (GIE, T0IE)
       \H2808 >> \* 8: GOTO 8

\* SLEEP inside a subroutine, with W and the carry flag set
LongSleep ==
    << \H3055,   \* 0: MOVLW 0x55
       \H2003,   \* 1: CALL 3
       \H0000,   \* 2: NOP
       \H1403,   \* 3: BSF STATUS,0
       \H0063 >> \* 4: SLEEP

LongPrograms == {LongNop, LongIsrSpin, LongIsr, LongSleep}

\* Simulator::new, reset and load_program have run
InitLong ==
    /\ cpu = Cpu_reset(Cpu_new)
    /\ \E p \in LongPrograms : program_memory = load_program(p)
    /\ state = "Paused"
    /\ stats = NoStats
    /\ breakpoints = << >>
    /\ ret = Ret("load_program", "none", 0, NoObs, NoIsr)
    /\ hist = NoIsr
    /\ host = [ writes |-> 0, reset |-> TRUE ]
    /\ q = << >>

StepLong == StepUpTo(NOMINAL_PERIOD + MaxLongSlack)

NextLong == StepLong

SpecLong == InitLong /\ [][NextLong]_vars

(***************************************************************************)
(* The interrupt check on its own: check_interrupts applied to register    *)
(* bytes, on a controller inside or outside an interrupt routine.          *)
(***************************************************************************)
\* PIE1 / PIR1 bytes: every combination of the four bits the check reads,
\* with the bits it does not read all clear or all set
PeripheralBytes ==
    { b0 + 8 * b3 + 64 * b6 + 128 * b7 + rest :
        b0 \in {0, 1}, b3 \in {0, 1}, b6 \in {0, 1}, b7 \in {0, 1},
        rest \in {\H00, \H36} }

Controllers == { InterruptController_new, enter_isr(InterruptController_new) }

InitChk ==
    /\ \E ic \in Controllers :
          cpu = [Cpu_reset(Cpu_new) EXCEPT !.interrupts = ic]
    /\ program_memory = << >>
    /\ state = "Paused"
    /\ stats = NoStats
    /\ breakpoints = << >>
    /\ ret = Ret("new", "none", 0, NoObs, NoIsr)
    /\ hist = NoIsr
    /\ host = NoHost
    /\ \E intcon \in Byte, pie1 \in PeripheralBytes, pir1 \in PeripheralBytes :
          q = [ intcon |-> intcon, pie1 |-> pie1, pir1 |-> pir1,
                done |-> FALSE, result |-> <<FALSE, 0>>,
                before |-> cpu.interrupts ]

\* self.interrupts.check_interrupts(intcon, pie1, pir1), taking &self
CheckInterrupts ==
    /\ ~q.done
    /\ q' = [q EXCEPT !.done = TRUE,
                      !.result = check_interrupts(q.intcon, q.pie1, q.pir1)]
    /\ ret' = Ret("check_interrupts", "none", 0, NoObs, NoIsr)
    /\ UNCHANGED <<cpu, program_memory, state, stats, breakpoints, hist, host>>

NextChk == CheckInterrupts

SpecChk == InitChk /\ [][NextChk]_vars

(***************************************************************************)
(* The return stack on its own: addresses pushed on the empty stack, then  *)
(* popped, as the unit tests of memory.rs do.                              *)
(***************************************************************************)
MaxPush == 10          \* SpecStack: addresses pushed

MaxPop == 10           \* SpecStack: pops made after the pushes

\* the i-th address pushed: every address of a run is distinct
StackAddrs(i) == { i, \H1FFF - i }

InitStack ==
    /\ cpu = Cpu_reset(Cpu_new)
    /\ program_memory = << >>
    /\ state = "Paused"
    /\ stats = NoStats
    /\ breakpoints = << >>
    /\ ret = Ret("new", "none", 0, NoObs, NoIsr)
    /\ hist = NoIsr
    /\ host = [ writes |-> 0, reset |-> TRUE ]
    /\ q = [ pushed |-> << >>, popped |-> << >> ]

\* memory.push_stack(a)
PushStack ==
    /\ Len(q.popped) = 0
    /\ Len(q.pushed) < MaxPush
    /\ \E a \in StackAddrs(Len(q.pushed) + 1) :
          /\ cpu' = [cpu EXCEPT !.memory = push_stack(cpu.memory, a)]
          /\ q' = [q EXCEPT !.pushed = Append(q.pushed, a)]
    /\ ret' = Ret("push_stack", "none", 0, NoObs, NoIsr)
    /\ UNCHANGED <<program_memory, state, stats, breakpoints, hist, host>>

\* memory.pop_stack()
PopStack ==
    /\ Len(q.popped) < MaxPop
    /\ cpu' = [cpu EXCEPT !.memory = pop_stack(cpu.memory)]
    /\ q' = [q EXCEPT !.popped = Append(q.popped, pop_stack_value(cpu.memory))]
    /\ ret' = Ret("pop_stack", "none", 0, NoObs, NoIsr)
    /\ UNCHANGED <<program_memory, state, stats, breakpoints, hist, host>>

NextStack == PushStack \/ PopStack

SpecStack == InitStack /\ [][NextStack]_vars

(***************************************************************************)
(* The watchdog on its own: a prescaler setting taken from an OPTION_REG   *)
(* byte, the counter cleared, then ticks, as the unit tests of wdt.rs do.  *)
(***************************************************************************)
MaxWdtTicks == 36002   \* SpecWdt: ticks made from the cleared WDT

\* OPTION_REG bytes with PSA = 1: rates 1:1, 1:2, 1:4
WdtOptions == { \H08, \H09, \H0A }

\* wdt.configure_prescaler(option); wdt.clear()
InitWdt ==
    /\ \E option \in WdtOptions :
          /\ cpu = [Cpu_reset(Cpu_new) EXCEPT
                      !.wdt = Wdt_clear(configure_prescaler(Wdt_new, option))]
          /\ q = [ option |-> option, ticks |-> 0, first |-> 0 ]
    /\ program_memory = << >>
    /\ state = "Paused"
    /\ stats = NoStats
    /\ breakpoints = << >>
    /\ ret = Ret("new", "none", 0, NoObs, NoIsr)
    /\ hist = NoIsr
    /\ host = [ writes |-> 0, reset |-> TRUE ]

\* wdt.tick(); q.first notes the tick that first returned true
WdtTick ==
    /\ q.ticks < MaxWdtTicks
    /\ cpu' = [cpu EXCEPT !.wdt = Wdt_tick(cpu.wdt)[1]]
    /\ q' = [q EXCEPT !.ticks = q.ticks + 1,
                      !.first = IF q.first = 0 /\ Wdt_tick(cpu.wdt)[2]
                                THEN q.ticks + 1 ELSE q.first]
    /\ ret' = Ret("wdt_tick", "none", 0, NoObs, NoIsr)
    /\ UNCHANGED <<program_memory, state, stats, breakpoints, hist, host>>

SpecWdt == InitWdt /\ [][WdtTick]_vars

(***************************************************************************)
(* The register dispatch on its own: one Cpu::write_register, then one     *)
(* Cpu::read_register of the same address, as the unit tests of cpu.rs do. *)
(***************************************************************************)
\* the addresses written: the peripheral registers of Bank 1 by their
\* constants, and TMR0 / GPIO (0x05 is TRISIO for a program in Bank 1)
RegAddrs == { OPTION_REG, TMR0, TRISIO, WPU, GPIO }

\* NOPs stepped before the write: 0, or 3 (Timer0 at counter 1 with its
\* prescaler accumulator at 1)
RegWarmups == { 0, 3 }

\* Cpu::reset, RP0 set or left clear
RegStart(bank) ==
    IF bank = 1 THEN set_status_bit(Cpu_reset(Cpu_new), 5)
    ELSE Cpu_reset(Cpu_new)

InitReg ==
    /\ \E bank \in {0, 1}, n \in RegWarmups, a \in RegAddrs, v \in Byte :
          /\ cpu = RegStart(bank)
          /\ q = [ addr |-> a, value |-> v, warm |-> n, phase |-> "start",
                   read |-> 0, before |-> RegStart(bank) ]
    /\ program_memory = load_program(<< >>)
    /\ state = "Paused"
    /\ stats = NoStats
    /\ breakpoints = << >>
    /\ ret = Ret("new", "none", 0, NoObs, NoIsr)
    /\ hist = NoIsr
    /\ host = [ writes |-> 0, reset |-> TRUE ]

\* Simulator::step over the empty program, before the write
WarmRegister ==
    /\ q.phase = "start"
    /\ q.warm > 0
    /\ StepCommit(Simulator_step(state, cpu, program_memory))
    /\ q' = [q EXCEPT !.warm = q.warm - 1, !.before = cpu']
    /\ UNCHANGED <<program_memory, state, breakpoints, host>>

\* cpu.write_register(addr, value)
WriteRegister ==
    /\ q.phase = "start"
    /\ q.warm = 0
    /\ cpu' = write_register(cpu, q.addr, q.value)
    /\ q' = [q EXCEPT !.phase = "written"]
    /\ ret' = Ret("write_register", "none", 0, NoObs, NoIsr)
    /\ UNCHANGED <<program_memory, state, stats, breakpoints, hist, host>>

\* cpu.read_register(addr), taking &self
ReadRegister ==
    /\ q.phase = "written"
    /\ q' = [q EXCEPT !.phase = "read", !.read = read_register(cpu, q.addr)]
    /\ ret' = Ret("read_register", "none", 0, NoObs, NoIsr)
    /\ UNCHANGED <<cpu, program_memory, state, stats, breakpoints, hist, host>>

NextReg == WarmRegister \/ WriteRegister \/ ReadRegister

SpecReg == InitReg /\ [][NextReg]_vars

(***************************************************************************)
(* Timer runs: both timers configured and loaded by the host as the unit   *)
(* tests of timer.rs do, then stepped until they have overflowed.          *)
(***************************************************************************)
MaxTmrCycles == 520    \* SpecTmr: steps are taken while the cycles are below

\* counts left to the overflow when the run starts
TmrNear == { 1, 2, 256 }

\* one-cycle steps only
TmrNop == << \H0000 >>

\* one-cycle and two-cycle steps in turn
TmrLoop ==
    << \H0000,   \* 0: NOP
       \H2800 >> \* 1: GOTO 0

TmrPrograms == { TmrNop, TmrLoop }

\* cycles left to the WDT timeout when the run starts: a fresh WDT, or one
\* that has counted all but 2 or 3 cycles of its period
TmrWdtLeft == { 2, 3, NOMINAL_PERIOD }

\* Cpu::reset and NOMINAL_PERIOD - left cycles without CLRWDT (the WDT has
\* counted them), then the host sets up the timers: OPTION_REG = PSA:PS,
\* Timer0 loaded with 256 - near, TMR1 loaded with 65536 - near, flags and
\* enables that are not the timers' own set in INTCON and PIR1 (GIE
\* clear), Timer1 switched on with prescaler 1:2^(ps mod 4)
TmrStart(ps, psa, near, left) ==
    LET c0 == Cpu_reset(Cpu_new)
        c1 == write_register([c0 EXCEPT !.wdt.counter = NOMINAL_PERIOD - left],
                             OPTION_REG, psa * 8 + ps)
        c2 == [c1 EXCEPT !.timer0 = Timer0_write_counter(c1.timer0, 256 - near)]
        c3 == write_register(c2, TMR1H, (65536 - near) \div 256)
        c4 == write_register(c3, TMR1L, (65536 - near) % 256)
        c5 == write_register(c4, INTCON, \H5A)
        c6 == write_register(c5, PIR1, \H48)
    IN  write_register(c6, T1CON, (ps % 4) * 16 + 1)

InitTmr ==
    /\ \E ps \in 0 .. 7, psa \in {0, 1}, near \in TmrNear, left \in TmrWdtLeft :
          /\ cpu = TmrStart(ps, psa, near, left)
          /\ q = [ ps |-> ps, psa |-> psa, near |-> near, left |-> left,
                   ticks |-> 0, first0 |-> 0, first1 |-> 0, reset_at |-> 0 ]
    /\ \E p \in TmrPrograms : program_memory = load_program(p)
    /\ state = "Paused"
    /\ stats = NoStats
    /\ breakpoints = << >>
    /\ ret = Ret("load_program", "none", 0, NoObs, NoIsr)
    /\ hist = NoIsr
    /\ host = [ writes |-> 0, reset |-> TRUE ]

\* the number, counted from the start of the run, of the tick of this step
\* on which a timer first reported overflow: first is the number noted so
\* far (0: none), early says the first tick of the step reports it, any
\* says some tick of the step did; nothing is noted once the WDT has reset
\* the CPU, and the timers with it
FirstTick(first, ticks, early, any, reset_at) ==
    IF first # 0 \/ reset_at # 0 THEN first
    ELSE IF early THEN ticks + 1
    ELSE IF any THEN ticks + 2
    ELSE 0

\* Simulator::step; q counts the ticks, notes the first overflows and the
\* tick on which the WDT reset the CPU
StepTmr ==
    /\ cpu.cycles < MaxTmrCycles
    /\ StepCommit(Simulator_step(state, cpu, program_memory))
    /\ q' = [q EXCEPT
               !.ticks = q.ticks + ret'.obs.ticks,
               !.first0 = FirstTick(q.first0, q.ticks,
                                    Timer0_tick(cpu.timer0)[2],
                                    ret'.obs.tmr0_overflow, q.reset_at),
               !.first1 = FirstTick(q.first1, q.ticks,
                                    Timer1_tick(cpu.timer1)[2],
                                    ret'.obs.tmr1_overflow, q.reset_at),
               !.reset_at = IF q.reset_at = 0 /\ ret'.obs.branch = "wdt_reset"
                            THEN q.ticks + ret'.obs.ticks ELSE q.reset_at]
    /\ UNCHANGED <<program_memory, state, breakpoints, host>>

SpecTmr == InitTmr /\ [][StepTmr]_vars

(***************************************************************************)
(* Banked data memory through the register dispatch: a byte is stored at   *)
(* an address in one bank, another byte is written to the same address in  *)
(* the other bank, and the first bank is read again.  The bank is selected *)
(* with set_status_bit / clear_status_bit (RP0).                           *)
(***************************************************************************)
\* addresses without an arm of their own in read_register / write_register:
\* PIR1, general purpose registers, and one address with bit 7 set
BankAddrs == { \H0C, \H20, \H5F, \H7F, \HA0 }

\* the byte stored first and the byte written in the other bank
BankBytes == { \H00, \H01, \H55, \HAA, \HFF }

select_bank(c, bank) ==
    IF bank = 1 THEN set_status_bit(c, 5) ELSE clear_status_bit(c, 5)

InitBank ==
    /\ \E a \in BankAddrs, u \in BankBytes, v \in BankBytes, b \in {0, 1} :
          q = [ addr |-> a, first |-> u, second |-> v, bank |-> b,
                phase |-> "start", before |-> 0, after |-> 0 ]
    /\ cpu = Cpu_reset(Cpu_new)
    /\ program_memory = load_program(<< >>)
    /\ state = "Paused"
    /\ stats = NoStats
    /\ breakpoints = << >>
    /\ ret = Ret("new", "none", 0, NoObs, NoIsr)
    /\ hist = NoIsr
    /\ host = [ writes |-> 0, reset |-> TRUE ]

\* bank q.bank selected, the first byte written to the address and read back
BankStore ==
    /\ q.phase = "start"
    /\ cpu' = write_register(select_bank(cpu, q.bank), q.addr, q.first)
    /\ q' = [q EXCEPT !.phase = "stored",
                      !.before = read_register(cpu', q.addr)]
    /\ ret' = Ret("write_register", "none", 0, NoObs, NoIsr)
    /\ UNCHANGED <<program_memory, state, stats, breakpoints, hist, host>>

\* the other bank selected, the second byte written to the address
BankWriteOther ==
    /\ q.phase = "stored"
    /\ cpu' = write_register(select_bank(cpu, 1 - q.bank), q.addr, q.second)
    /\ q' = [q EXCEPT !.phase = "written"]
    /\ ret' = Ret("write_register", "none", 0, NoObs, NoIsr)
    /\ UNCHANGED <<program_memory, state, stats, breakpoints, hist, host>>

\* bank q.bank selected again, the address read
BankReadBack ==
    /\ q.phase = "written"
    /\ cpu' = select_bank(cpu, q.bank)
    /\ q' = [q EXCEPT !.phase = "read",
                      !.after = read_register(cpu', q.addr)]
    /\ ret' = Ret("read_register", "none", 0, NoObs, NoIsr)
    /\ UNCHANGED <<program_memory, state, stats, breakpoints, hist, host>>

NextBank == BankStore \/ BankWriteOther \/ BankReadBack

SpecBank == InitBank /\ [][NextBank]_vars

(***************************************************************************)
(* Resets: Simulator::reset at any point of a short program, and the reset *)
(* a WDT timeout makes inside a step.  The WDT starts a few cycles short   *)
(* of its period (the host has ticked it through Cpu::wdt_mut), the EEPROM *)
(* holds a byte the host wrote through Memory::write_eeprom.               *)
(***************************************************************************)
MaxResetCycles == 12   \* SpecReset: steps are taken while the counters are below

\* cycles left to the WDT timeout when the run starts
ResetWdtLeft == { 3, 6, 9 }

\* the byte the host has written to EEPROM address 0x10
ResetEeprom == { \H00, \H55 }

InitReset ==
    /\ \E left \in ResetWdtLeft, e \in ResetEeprom :
          /\ cpu = [Cpu_new EXCEPT
                      !.wdt.counter = NOMINAL_PERIOD - left,
                      !.memory = write_eeprom(Cpu_new.memory, \H10, e)]
          /\ q = [ left |-> left, eeprom |-> e ]
    /\ \E p \in Programs : program_memory = load_program(p)
    /\ state = "Paused"
    /\ stats = NoStats
    /\ breakpoints = << >>
    /\ ret = Ret("load_program", "none", 0, NoObs, NoIsr)
    /\ hist = NoIsr
    /\ host = NoHost

StepReset == StepUpTo(MaxResetCycles)

NextReset == Reset \/ StepReset

SpecReset == InitReset /\ [][NextReset]_vars

(***************************************************************************)
(* The control operations of the simulator: step, run, run_n_instructions, *)
(* run_n_cycles, halt, reset and the breakpoints.  The three loops are     *)
(* taken one iteration at a time; q.call is the loop the caller is in, and *)
(* no other operation begins before it has returned (&mut self).           *)
(***************************************************************************)
MaxRunCycles == 7      \* SpecRun: steps are taken while the counters are below

\* the program of the breakpoint test: MOVLW 0x55; MOVWF 0x20; GOTO 0
RunLoopProg == << \H3055, \H00A0, \H2800 >>

\* a word that decodes to nothing after two NOPs
RunBadProg == << \H0000, \H0000, \H0001 >>

\* SLEEP after a NOP
RunSleepProg == << \H0000, \H0063, \H0000 >>

RunPrograms == { RunLoopProg, RunBadProg, RunSleepProg }

\* addresses given to add_breakpoint
RunBreakpoints == { \H002 }

\* arguments of run_n_instructions and run_n_cycles
RunCounts == { 0, 3 }

\* no loop entered, no halt since the last reset
NoCall ==
    [ call |-> "none", n |-> 0, left |-> 0, target |-> 0, start |-> 0,
      halted |-> FALSE, at_halt |-> 0 ]

Contains(seq, x) == \E i \in 1 .. Len(seq) : seq[i] = x

\* Simulator::new, load_program
InitRun ==
    /\ cpu = Cpu_new
    /\ \E p \in RunPrograms : program_memory = load_program(p)
    /\ state = "Paused"
    /\ stats = NoStats
    /\ breakpoints = << >>
    /\ ret = Ret("load_program", "none", 0, NoObs, NoIsr)
    /\ hist = NoIsr
    /\ host = NoHost
    /\ q = NoCall

\* the caller is in none of the loops
Idle == q.call = "none"

\* the loop the caller is in goes on to its call of self.step()
LoopSteps ==
    \/ q.call = "run" /\ state = "Running" /\ ~Contains(breakpoints, cpu.pc)
    \/ q.call = "run_n_instructions" /\ q.left > 0
    \/ q.call = "run_n_cycles" /\ stats.cycles_elapsed < q.target

\* the simulator after self.step() has returned r to the host (q.call is
\* "none") or to the loop the caller is in: run sets the Error state and
\* returns the error, the other two return it (self.step()?)
Stepped(r) ==
    /\ cpu' = r.cpu
    /\ stats' = [ instructions_executed |->
                      stats.instructions_executed + r.d_instructions,
                  cycles_elapsed |-> stats.cycles_elapsed + r.d_cycles ]
    /\ ret' = Ret(IF Idle THEN "step" ELSE q.call,
                  IF ~Idle /\ r.kind = "ok" THEN "running" ELSE r.kind,
                  r.cycles, r.obs, NoIsr)
    /\ state' = IF q.call = "run" /\ r.kind # "ok" THEN "Error" ELSE state
    /\ q' = IF Idle THEN q
            ELSE IF r.kind # "ok" THEN [q EXCEPT !.call = "none"]
            ELSE IF q.call = "run_n_instructions"
                 THEN [q EXCEPT !.left = q.left - 1]
            ELSE q

\* the counters are below the bound of the model
RunBelowBound ==
    cpu.cycles < MaxRunCycles /\ stats.cycles_elapsed < MaxRunCycles

\* Simulator::reset
RunReset ==
    /\ Idle
    /\ cpu' = Cpu_reset(cpu)
    /\ state' = "Paused"
    /\ stats' = NoStats
    /\ ret' = Ret("reset", "none", 0, NoObs, NoIsr)
    /\ host' = [host EXCEPT !.reset = TRUE]
    /\ q' = [q EXCEPT !.halted = FALSE, !.at_halt = 0]
    /\ UNCHANGED <<program_memory, breakpoints, hist>>

\* Simulator::halt
RunHalt ==
    /\ Idle
    /\ state' = "Halted"
    /\ ret' = Ret("halt", "none", 0, NoObs, NoIsr)
    /\ q' = [q EXCEPT !.halted = TRUE,
                      !.at_halt = stats.instructions_executed]
    /\ UNCHANGED <<cpu, program_memory, stats, breakpoints, hist, host>>

\* Simulator::pause
Pause ==
    /\ Idle
    /\ state' = IF state = "Running" THEN "Paused" ELSE state
    /\ ret' = Ret("pause", "none", 0, NoObs, NoIsr)
    /\ UNCHANGED <<cpu, program_memory, stats, breakpoints, hist, host, q>>

\* Simulator::add_breakpoint
AddBreakpoint ==
    /\ Idle
    /\ \E address \in RunBreakpoints :
          breakpoints' = IF Contains(breakpoints, address) THEN breakpoints
                         ELSE Append(breakpoints, address)
    /\ ret' = Ret("add_breakpoint", "none", 0, NoObs, NoIsr)
    /\ UNCHANGED <<cpu, program_memory, state, stats, hist, host, q>>

\* Simulator::step, called by the host or from the loop the caller is in
RunStep ==
    /\ Idle \/ LoopSteps
    /\ RunBelowBound
    /\ \E r \in { Simulator_step(state, cpu, program_memory) } : Stepped(r)
    /\ UNCHANGED <<program_memory, breakpoints, hist, host>>

\* Simulator::run up to its loop
Run ==
    /\ Idle
    /\ state' = "Running"
    /\ q' = [q EXCEPT !.call = "run", !.n = 0, !.left = 0, !.target = 0,
                      !.start = stats.instructions_executed]
    /\ ret' = Ret("run", "running", 0, NoObs, NoIsr)
    /\ UNCHANGED <<cpu, program_memory, stats, breakpoints, hist, host>>

\* a run that returns without pausing
RunReturn_still_running ==
    /\ q.call = "run"
    /\ ~LoopSteps
    /\ ret' = Ret("run", "ok", 0, NoObs, NoIsr)
    /\ q' = [q EXCEPT !.call = "none"]
    /\ UNCHANGED <<cpu, program_memory, state, stats, breakpoints, hist, host>>

\* Simulator::run returning Ok: PC is at a breakpoint (or the state is no
\* longer Running)
RunReturn ==
    /\ q.call = "run"
    /\ ~LoopSteps
    /\ state' = IF state = "Running" THEN "Paused" ELSE state
    /\ ret' = Ret("run", "ok", 0, NoObs, NoIsr)
    /\ q' = [q EXCEPT !.call = "none"]
    /\ UNCHANGED <<cpu, program_memory, stats, breakpoints, hist, host>>

\* Simulator::run_n_instructions up to its loop
RunNInstructions ==
    /\ Idle
    /\ \E n \in RunCounts :
          q' = [q EXCEPT !.call = "run_n_instructions", !.n = n, !.left = n,
                         !.target = 0,
                         !.start = stats.instructions_executed]
    /\ ret' = Ret("run_n_instructions", "running", 0, NoObs, NoIsr)
    /\ UNCHANGED <<cpu, program_memory, state, stats, breakpoints, hist, host>>

\* Simulator::run_n_cycles up to its loop
RunNCycles ==
    /\ Idle
    /\ \E n \in RunCounts :
          q' = [q EXCEPT !.call = "run_n_cycles", !.n = n, !.left = 0,
                         !.target = stats.cycles_elapsed + n,
                         !.start = stats.instructions_executed]
    /\ ret' = Ret("run_n_cycles", "running", 0, NoObs, NoIsr)
    /\ UNCHANGED <<cpu, program_memory, state, stats, breakpoints, hist, host>>

\* run_n_instructions or run_n_cycles returning Ok after its loop
RunNReturn ==
    /\ q.call \in { "run_n_instructions", "run_n_cycles" }
    /\ ~LoopSteps
    /\ ret' = Ret(q.call, "ok", 0, NoObs, NoIsr)
    /\ q' = [q EXCEPT !.call = "none"]
    /\ UNCHANGED <<cpu, program_memory, state, stats, breakpoints, hist, host>>

NextRun ==
    \/ RunReset \/ RunHalt \/ Pause \/ AddBreakpoint \/ RunStep
    \/ Run \/ RunReturn \/ RunNInstructions \/ RunNCycles \/ RunNReturn

SpecRun == InitRun /\ [][NextRun]_vars

(***************************************************************************)
(* The GPIO port on its own: the host drives the pins and the peripheral   *)
(* overrides through Cpu::gpio_mut, the registers are written through the  *)
(* port's own methods.                                                     *)
(***************************************************************************)
\* bytes written to the port registers and to the external pins
GpioBytes == { \H00, \H15, \H2A, \HFF }

\* pins driven one at a time: GP0, GP5, and 6 (no such pin)
GpioPins == { 0, 5, 6 }

InitGpio ==
    /\ cpu = Cpu_reset(Cpu_new)
    /\ q = [ op |-> "gpio_mut" ]
    /\ program_memory = load_program(<< >>)
    /\ state = "Paused"
    /\ stats = NoStats
    /\ breakpoints = << >>
    /\ ret = Ret("new", "none", 0, NoObs, NoIsr)
    /\ hist = NoIsr
    /\ host = [ writes |-> 0, reset |-> TRUE ]

\* one call on cpu.gpio_mut()
GpioCall ==
    /\ \/ \E v \in GpioBytes :
             cpu' = [cpu EXCEPT !.gpio = write_gpio(cpu.gpio, v)]
       \/ \E v \in GpioBytes :
             cpu' = [cpu EXCEPT !.gpio = write_tris(cpu.gpio, v)]
       \/ \E v \in { \H00, \HFF } :
             cpu' = [cpu EXCEPT !.gpio = write_wpu(cpu.gpio, v)]
       \/ \E v \in GpioBytes :
             cpu' = [cpu EXCEPT !.gpio = set_external_pins(cpu.gpio, v)]
       \/ \E pin \in GpioPins, st \in BOOLEAN :
             cpu' = [cpu EXCEPT !.gpio = set_external_pin(cpu.gpio, pin, st)]
       \/ \E pin \in GpioPins, enable \in BOOLEAN, value \in BOOLEAN :
             cpu' = [cpu EXCEPT !.gpio =
                           set_peripheral_control(cpu.gpio, pin, enable, value)]
    /\ ret' = Ret("gpio_mut", "none", 0, NoObs, NoIsr)
    /\ UNCHANGED <<program_memory, state, stats, breakpoints, hist, host, q>>

SpecGpio == InitGpio /\ [][GpioCall]_vars

(***************************************************************************)
(* Subroutine calls: programs that branch with PCLATH<4:3> set, from a PC  *)
(* the host has placed (Cpu::set_pc) and with frames the host has pushed   *)
(* (Cpu::push_pc) before the first step.                                   *)
(***************************************************************************)
MaxCallCycles == 14

\* CALL and GOTO with PCLATH = 0x18; RETLW and RETURN come back
CallHighProg ==
    << \H3018,   \* 0: MOVLW 0x18
       \H008A,   \* 1: MOVWF PCLATH
       \H2005,   \* 2: CALL 5        (PC = 0x1805)
       \H2807,   \* 3: GOTO 7        (PC = 0x1807)
       \H0000,   \* 4: NOP
       \H0000,   \* 5: NOP
       \H3442,   \* 6: RETLW 0x42
       \H2002,   \* 7: CALL 2        (PC = 0x1802)
       \H0008 >> \* 8: RETURN

\* the PCL write of MOVWF PCL leaves PC = 0x3805, where a CALL executes
CallPclProg ==
    << \H3038,   \* 0: MOVLW 0x38
       \H008A,   \* 1: MOVWF PCLATH
       \H3005,   \* 2: MOVLW 0x05
       \H0082,   \* 3: MOVWF PCL     (PC = 0x3805)
       \H0000,   \* 4: NOP
       \H2007,   \* 5: CALL 7        (PC = 0x1807)
       \H2800,   \* 6: GOTO 0        (PC = 0x1800)
       \H0008 >> \* 7: RETURN

\* a full image whose last word, fetched at PC = 0x1FFF, is a CALL
CallWrapProg ==
    [ i \in 1 .. PROGRAM_MEMORY_SIZE |->
        IF i = PROGRAM_MEMORY_SIZE THEN \H2002      \* 0x3FF: CALL 2
        ELSE IF i = 3 THEN \H0008                   \* 2: RETURN
        ELSE IF i = 2 THEN \H2BFF                   \* 1: GOTO 0x3FF
        ELSE \H0000 ]                               \* NOP

CallPrograms == { CallHighProg, CallPclProg, CallWrapProg }

\* PC placed by the host before the first step
CallStarts == { \H0000, \H1FFF }

\* frames pushed by the host before the first step
CallDepths == { 0, 3, 7, 8 }

\* cycles left to the WDT timeout before the first step
CallWdtLeft == { 4, NOMINAL_PERIOD }

NoOpenCall ==
    [ open |-> FALSE, returned |-> FALSE, p |-> 0, depth |-> 0, w |-> 0 ]

\* set_pc(0x100 + i); push_pc() for i = 1 .. n
RECURSIVE HostPushed(_, _)
HostPushed(c, n) ==
    IF n = 0 THEN c
    ELSE push_pc(set_pc(HostPushed(c, n - 1), \H100 + n))

InitCall ==
    /\ \E start \in CallStarts, d \in CallDepths, left \in CallWdtLeft :
          cpu = [set_pc(HostPushed(Cpu_reset(Cpu_new), d), start)
                   EXCEPT !.wdt.counter = NOMINAL_PERIOD - left]
    /\ \E p \in CallPrograms : program_memory = load_program(p)
    /\ q = NoOpenCall
    /\ state = "Paused"
    /\ stats = NoStats
    /\ breakpoints = << >>
    /\ ret = Ret("load_program", "none", 0, NoObs, NoIsr)
    /\ hist = NoIsr
    /\ host = [ writes |-> 0, reset |-> TRUE ]

\* the CALL whose frame is on top of the stack, no stack operation since
call_after(c, r, h) ==
    IF r.obs.branch = "exec" /\ r.obs.op = "CALL"
    THEN [ open |-> TRUE, returned |-> FALSE, p |-> r.obs.fetch_pc,
           depth |-> r.obs.serviced.depth, w |-> c.w ]
    ELSE IF r.obs.branch = "exec" /\ r.obs.op \in {"RETURN", "RETLW"}
            /\ h.open /\ ~r.obs.interrupted
    THEN [h EXCEPT !.open = FALSE, !.returned = TRUE]
    ELSE IF r.obs.branch \in {"wdt_reset", "decode_err", "exec"}
            /\ (r.obs.interrupted \/ r.obs.branch = "wdt_reset"
                \/ r.obs.op \in StackOps)
    THEN NoOpenCall
    ELSE [h EXCEPT !.returned = FALSE]

StepCall ==
    /\ cpu.cycles < MaxCallCycles
    /\ \E r \in { Simulator_step(state, cpu, program_memory) } :
          /\ StepCommit(r)
          /\ q' = call_after(cpu, r, q)
    /\ UNCHANGED <<program_memory, state, breakpoints, host>>

SpecCall == InitCall /\ [][StepCall]_vars

(***************************************************************************)
(* hexloader.rs                                                            *)
(* A line is a sequence of one-character strings.                          *)
(***************************************************************************)
HexChars ==
    << "0", "1", "2", "3", "4", "5", "6", "7",
       "8", "9", "A", "B", "C", "D", "E", "F" >>

LowerHexChars ==
    << "0", "1", "2", "3", "4", "5", "6", "7",
       "8", "9", "a", "b", "c", "d", "e", "f" >>

Whitespace == { " ", "\t", "\r" }

\* str::trim
RECURSIVE trim_start(_)
trim_start(s) ==
    IF s # << >> /\ Head(s) \in Whitespace THEN trim_start(Tail(s)) ELSE s

RECURSIVE trim_end(_)
trim_end(s) ==
    IF s # << >> /\ s[Len(s)] \in Whitespace
    THEN trim_end(SubSeq(s, 1, Len(s) - 1))
    ELSE s

trim(s) == trim_end(trim_start(s))

IsHexDigit(ch) ==
    \E v \in 1 .. 16 : HexChars[v] = ch \/ LowerHexChars[v] = ch

to_digit(ch) ==
    (CHOOSE v \in 1 .. 16 : HexChars[v] = ch \/ LowerHexChars[v] = ch) - 1

\* u8::from_str_radix(byte_str, 16) of two characters; -1 is the Err
from_str_radix(byte_str) ==
    IF IsHexDigit(byte_str[1]) /\ IsHexDigit(byte_str[2])
    THEN 16 * to_digit(byte_str[1]) + to_digit(byte_str[2])
    ELSE IF byte_str[1] = "+" /\ IsHexDigit(byte_str[2])
    THEN to_digit(byte_str[2])
    ELSE -1

\* RecordType::from_u8: the six types, anything else is None
RecordTypes == 0 .. 5

Data == 0

EndOfFile == 1

ExtendedSegmentAddress == 2

ExtendedLinearAddress == 4

\* HexRecord::calculate_checksum
RECURSIVE wrapping_sum(_)
wrapping_sum(bytes) ==
    IF bytes = << >> THEN 0
    ELSE WrapAdd8(wrapping_sum(SubSeq(bytes, 1, Len(bytes) - 1)),
                  bytes[Len(bytes)])

\* a checksum that leaves the last byte out of the sum
calculate_checksum_short(bytes) ==
    WrapSub8(0, wrapping_sum(SubSeq(bytes, 1, Len(bytes) - 1)))

calculate_checksum(bytes) == WrapSub8(0, wrapping_sum(bytes))

ParseErr(msg) ==
    [ ok |-> FALSE, err |-> msg, byte_count |-> 0, address |-> 0,
      record_type |-> 0, data |-> << >>, checksum |-> 0 ]

\* HexRecord::parse from the byte vector on
parse_bytes(bytes) ==
    IF Len(bytes) < 5 THEN ParseErr("HEX line too short")
    ELSE IF bytes[4] \notin RecordTypes THEN ParseErr("Invalid record type")
    ELSE LET byte_count == bytes[1]
             data_end   == 4 + byte_count
         IN  IF Len(bytes) # data_end + 1 THEN ParseErr("Byte count mismatch")
             ELSE IF calculate_checksum(SubSeq(bytes, 1, data_end))
                         # bytes[data_end + 1]
             THEN ParseErr("Checksum mismatch")
             ELSE [ ok          |-> TRUE,
                    err         |-> "",
                    byte_count  |-> byte_count,
                    address     |-> bytes[2] * 256 + bytes[3],
                    record_type |-> bytes[4],
                    data        |-> SubSeq(bytes, 5, data_end),
                    checksum    |-> bytes[data_end + 1] ]

\* HexRecord::parse
HexRecord_parse(text) ==
    LET line == trim(text)
    IN  IF line = << >> \/ Head(line) # ":"
        THEN ParseErr("HEX line must start with ':'")
        ELSE LET digits == Tail(line)
             IN  IF Len(digits) % 2 # 0
                 THEN ParseErr("HEX line must have even number of characters")
                 ELSE LET bytes ==
                              [ i \in 1 .. Len(digits) \div 2 |->
                                  from_str_radix(<<digits[2 * i - 1],
                                                   digits[2 * i]>>) ]
                      IN  IF \E i \in 1 .. Len(bytes) : bytes[i] = -1
                          THEN ParseErr("Invalid hex byte")
                          ELSE parse_bytes(bytes)

\* Vec::resize to a longer vector
resize(v, n, fill) == v \o [ i \in 1 .. n - Len(v) |-> fill ]

\* the "Copy data" loops: data written at index at (from 0) of v
copy_data(v, at, data) ==
    LET w == IF at + Len(data) > Len(v)
             THEN resize(v, at + Len(data), \HFF) ELSE v
    IN  [ i \in 1 .. Len(w) |->
            IF i > at /\ i <= at + Len(data) THEN data[i - at] ELSE w[i] ]

\* the locals of load_from_lines before the first line
NewLoad ==
    [ program_bytes |-> << >>, max_address |-> 0, extended_address |-> 0,
      eeprom_data |-> << >>, config_word |-> << >>,
      err |-> "", err_line |-> 0 ]

Max(a, b) == IF a > b THEN a ELSE b

\* the RecordType::Data arm
data_record(l, record) ==
    LET abs_address == l.extended_address + record.address
    IN  IF abs_address >= \H2100 /\ abs_address < \H2180
        THEN [l EXCEPT !.eeprom_data =
                  copy_data(l.eeprom_data, abs_address - \H2100, record.data)]
        ELSE IF abs_address = \H2007
        THEN IF Len(record.data) >= 2
             THEN [l EXCEPT !.config_word =
                       << record.data[1] + 256 * record.data[2] >>]
             ELSE l
        ELSE [l EXCEPT
                  !.program_bytes =
                      copy_data(l.program_bytes, abs_address, record.data),
                  !.max_address =
                      Max(l.max_address, abs_address + Len(record.data))]

\* the match on the record type, EndOfFile apart
apply_record(l, record) ==
    IF record.record_type = Data THEN data_record(l, record)
    ELSE IF record.record_type = ExtendedLinearAddress
    THEN IF Len(record.data) >= 2
         THEN [l EXCEPT !.extended_address =
                   (record.data[1] * 256 + record.data[2]) * 65536]
         ELSE l
    ELSE IF record.record_type = ExtendedSegmentAddress
    THEN IF Len(record.data) >= 2
         THEN [l EXCEPT !.extended_address =
                   (record.data[1] * 256 + record.data[2]) * 16]
         ELSE l
    ELSE l

\* the "for (line_num, line)" loop from line i on (i counts from 1)
RECURSIVE load_loop(_, _, _)
load_loop(lines, i, l) ==
    IF i > Len(lines) THEN l
    ELSE LET line == trim(lines[i])
         IN  IF line = << >> \/ Head(line) = ";"
             THEN load_loop(lines, i + 1, l)
             ELSE LET record == HexRecord_parse(line)
                  IN  IF ~record.ok
                      THEN [l EXCEPT !.err = record.err, !.err_line = i]
                      ELSE IF record.record_type = EndOfFile THEN l
                      ELSE load_loop(lines, i + 1, apply_record(l, record))

\* "Convert bytes to 14-bit words"
program_words(program_bytes) ==
    [ w \in 1 .. (Len(program_bytes) + 1) \div 2 |->
        IF 2 * w <= Len(program_bytes)
        THEN (program_bytes[2 * w - 1] + 256 * program_bytes[2 * w]) % \H4000
        ELSE program_bytes[2 * w - 1] ]

NoProgram ==
    [ program |-> << >>, eeprom |-> << >>, config |-> << >>,
      start_address |-> 0 ]

\* HexLoader::load_from_lines: Ok(HexProgram) or Err("Line n: message")
load_from_lines(lines) ==
    LET l == load_loop(lines, 1, NewLoad)
    IN  IF l.err # ""
        THEN [ ok |-> FALSE, err |-> l.err, err_line |-> l.err_line,
               hex_program |-> NoProgram ]
        ELSE [ ok |-> TRUE, err |-> "", err_line |-> 0,
               hex_program |->
                   [ program |-> program_words(l.program_bytes),
                     eeprom |-> l.eeprom_data,
                     config |-> l.config_word,
                     start_address |-> 0 ] ]

(***************************************************************************)
(* HEX loads: HexLoader::load_from_string on three-line inputs.  Each line *)
(* is kept with the bytes it was written from (none for free text).       *)
(***************************************************************************)
RECURSIVE ByteSum(_)
ByteSum(bytes) == IF bytes = << >> THEN 0 ELSE Head(bytes) + ByteSum(Tail(bytes))

RECURSIVE HexText(_)
HexText(bytes) ==
    IF bytes = << >> THEN << >>
    ELSE << HexChars[(Head(bytes) \div 16) + 1],
            HexChars[(Head(bytes) % 16) + 1] >>
         \o HexText(Tail(bytes))

\* count, address (big-endian), type, payload
Body(type, addr, data) ==
    << Len(data), addr \div 256, addr % 256, type >> \o data

\* the record with the checksum byte that makes the sum 0 modulo 256 ...
Sealed(body) == body \o << (256 - (ByteSum(body) % 256)) % 256 >>

\* ... and with that byte altered
Broken(body) == body \o << (257 - (ByteSum(body) % 256)) % 256 >>

RecordLine(bytes) == [ bytes |-> bytes, text |-> <<":">> \o HexText(bytes) ]

\* the same record between blanks, as trim must see it
PaddedLine(bytes) ==
    [ bytes |-> bytes, text |-> <<" ", ":">> \o HexText(bytes) \o <<"\r">> ]

TextLine(chars) == [ bytes |-> << >>, text |-> chars ]

EofLine == RecordLine(Sealed(Body(EndOfFile, 0, << >>)))

HexPayload == << \H55, \H30 >>

\* first line: nothing, a comment, base 0 (04), base 0x2000 (02), or EOF
HexHeads ==
    { TextLine(<< >>),
      TextLine(<< ";", "c" >>),
      RecordLine(Sealed(Body(ExtendedLinearAddress, 0, << \H00, \H00 >>))),
      RecordLine(Sealed(Body(ExtendedSegmentAddress, 0, << \H02, \H00 >>))),
      EofLine }

HexAddrs ==
    { \H0000, \H0002, \H0007, \H0100, \H017F, \H0180, \H1FFE, \H2007, \H2100 }

\* second line: a data record, its checksum right or altered
HexDatas ==
    { RecordLine(Sealed(Body(Data, a, HexPayload))) : a \in HexAddrs }
    \cup { RecordLine(Broken(Body(Data, a, HexPayload))) : a \in HexAddrs }
    \cup { RecordLine(Sealed(Body(Data, \H0007, << \H55 >>))) }

\* third line: EOF, one more data record, malformed text, other types
HexTails ==
    { EofLine,
      PaddedLine(Sealed(Body(Data, \H0002, << \H20, \H00 >>))),
      RecordLine(Broken(Body(Data, \H0002, << \H20, \H00 >>))),
      TextLine(<< ":", "0", "0", "0" >>),
      [ bytes |-> Sealed(Body(EndOfFile, 0, << >>)),
        text  |-> << ":", "0", "0", "0", "0", "0", "0", "0", "1", "f", "f" >> ],
      RecordLine(Sealed(Body(6, 0, << >>))),
      RecordLine(Sealed(Body(5, 0, << \H00, \H00, \H00, \H00 >>))) }

NoLoad == [ ok |-> FALSE, err |-> "", err_line |-> 0, hex_program |-> NoProgram ]

InitHex ==
    /\ \E h \in HexHeads, d \in HexDatas, t \in HexTails :
          q = [ input |-> << h, d, t >>,
                lines |-> << h.text, d.text, t.text >>,
                called |-> FALSE, result |-> NoLoad ]
    /\ cpu = Cpu_new
    /\ program_memory = load_program(<< >>)
    /\ state = "Paused"
    /\ stats = NoStats
    /\ breakpoints = << >>
    /\ ret = Ret("new", "none", 0, NoObs, NoIsr)
    /\ hist = NoIsr
    /\ host = NoHost

\* HexLoader::load_from_string(content), content being the lines of q
LoadFromString ==
    /\ ~q.called
    /\ q' = [q EXCEPT !.called = TRUE, !.result = load_from_lines(q.lines)]
    /\ ret' = Ret("load_from_string", "none", 0, NoObs, NoIsr)
    /\ UNCHANGED <<cpu, program_memory, state, stats, breakpoints, hist, host>>

SpecHex == InitHex /\ [][LoadFromString]_vars

(***************************************************************************)
(* Sleep and wake-up: programs that execute SLEEP, started with the WDT    *)
(* close to its period, the timers close to overflow and interrupts        *)
(* enabled; the host raises T0IF while the CPU sleeps.                     *)
(***************************************************************************)
MaxSleepSteps == 9    \* SpecSleep: steps taken in one run

\* sleeps in the main loop, the routine at the vector clears T0IF
SleepWakeProg ==
    << \H0063,   \* 0: SLEEP
       \H0000,   \* 1: NOP
       \H2800,   \* 2: GOTO 0
       \H0000,   \* 3: NOP
       \H110B,   \* 4: BCF INTCON,2
       \H0009 >> \* 5: RETFIE

\* sleeps inside the interrupt routine after setting GIE again; the word
\* after the SLEEP is not an instruction
SleepIsrProg ==
    << \H0000,   \* 0: NOP
       \H2800,   \* 1: GOTO 0
       \H0000,   \* 2: NOP
       \H0000,   \* 3: NOP
       \H178B,   \* 4: BSF INTCON,7
       \H0063,   \* 5: SLEEP
       \H0001 >> \* 6: not an instruction

\* sleeps at once, CLRWDT after it
SleepClrProg ==
    << \H0063,   \* 0: SLEEP
       \H0064,   \* 1: CLRWDT
       \H2800 >> \* 2: GOTO 0

SleepPrograms == { SleepWakeProg, SleepIsrProg, SleepClrProg }

\* cycles left to the WDT timeout when the run starts
SleepWdtLeft == { 1, 2, 3, 4, NOMINAL_PERIOD }

\* ticks left to the overflow of Timer0 and of Timer1
SleepNear == { 1, 2, 100 }

\* INTCON as the host leaves it: nothing enabled, GIE with T0IE and T0IF,
\* GIE with PEIE (TMR1IE is set in PIE1)
SleepIntcon == { \H00, \HA4, \HC0 }

\* Cpu::reset and NOMINAL_PERIOD - left cycles without CLRWDT, then the
\* host sets up the timers (prescaler to the WDT, Timer0 and TMR1 loaded
\* near ticks before their overflow, Timer1 on), PIE1 and INTCON
SleepStart(left, near, intcon) ==
    LET c0 == Cpu_reset(Cpu_new)
        c1 == write_register([c0 EXCEPT !.wdt.counter = NOMINAL_PERIOD - left],
                             OPTION_REG, \H08)
        c2 == [c1 EXCEPT !.timer0 = Timer0_write_counter(c1.timer0, 256 - near)]
        c3 == write_register(c2, TMR1H, \HFF)
        c4 == write_register(c3, TMR1L, 256 - near)
        c5 == write_register(c4, T1CON, \H01)
        c6 == write_register(c5, PIE1, \H01)
    IN  write_register(c6, INTCON, intcon)

InitSleep ==
    /\ \E left \in SleepWdtLeft, near \in SleepNear, intcon \in SleepIntcon :
          cpu = SleepStart(left, near, intcon)
    /\ \E p \in SleepPrograms : program_memory = load_program(p)
    /\ q = [ steps |-> 0 ]
    /\ state = "Paused"
    /\ stats = NoStats
    /\ breakpoints = << >>
    /\ ret = Ret("load_program", "none", 0, NoObs, NoIsr)
    /\ hist = NoIsr
    /\ host = [ writes |-> 0, reset |-> TRUE ]

\* sim.cpu_mut().write_register(INTCON, GIE | T0IE | T0IF) while the CPU
\* sleeps
SleepRaise ==
    /\ cpu.sleeping
    /\ host.writes < MaxHost
    /\ cpu' = write_register(cpu, INTCON, \HA4)
    /\ host' = [host EXCEPT !.writes = host.writes + 1]
    /\ ret' = Ret("write_register", "none", 0, NoObs, NoIsr)
    /\ UNCHANGED <<program_memory, state, stats, breakpoints, hist, q>>

\* Simulator::step; q counts the steps
StepSleep ==
    /\ q.steps < MaxSleepSteps
    /\ \E r \in { Simulator_step(state, cpu, program_memory) } :
          StepCommit(r)
    /\ q' = [ steps |-> q.steps + 1 ]
    /\ UNCHANGED <<program_memory, state, breakpoints, host>>

NextSleep == SleepRaise \/ StepSleep

SpecSleep == InitSleep /\ [][NextSleep]_vars

(***************************************************************************)
(* The skip instructions: a full image of BTFSC, BTFSS, DECFSZ and INCFSZ  *)
(* on general purpose registers, on W and on PCL, entered at the start and *)
(* at the end of the 13-bit address range.                                 *)
(***************************************************************************)
MaxSkipSteps == 6      \* SpecSkip: steps taken in one run

SkipProg ==
    [ i \in 1 .. PROGRAM_MEMORY_SIZE |->
        CASE i = 1 -> \H0BA0                        \* 0: DECFSZ 0x20,1
          [] i = 2 -> \H0FA1                        \* 1: INCFSZ 0x21,1
          [] i = 3 -> \H1820                        \* 2: BTFSC 0x20,0
          [] i = 4 -> \H1FA1                        \* 3: BTFSS 0x21,7
          [] i = 5 -> \H0B21                        \* 4: DECFSZ 0x21,0
          [] i = 6 -> \H2BFE                        \* 5: GOTO 0x3FE
          [] i = 7 -> \H0F82                        \* 6: INCFSZ PCL,1
          [] i = 8 -> \H2800                        \* 7: GOTO 0
          [] i = 9 -> \H0B82                        \* 8: DECFSZ PCL,1
          [] i = PROGRAM_MEMORY_SIZE - 1 -> \H18A0  \* 0x3FE: BTFSC 0x20,1
          [] i = PROGRAM_MEMORY_SIZE -> \H0FA0      \* 0x3FF: INCFSZ 0x20,1
          [] OTHER -> \H0000 ]                      \* NOP

\* PC placed by the host before the first step
SkipStarts == { \H0000, \H0004, \H1FFE, \H1FFF }

\* bytes the host stores in 0x20 and 0x21 before the first step
SkipBytes == { \H00, \H01, \H02, \HFF }

\* cycles left to the WDT timeout when the run starts
SkipWdtLeft == { 1, 2, NOMINAL_PERIOD }

InitSkip ==
    /\ \E start \in SkipStarts, a \in SkipBytes, b \in SkipBytes,
          left \in SkipWdtLeft :
          cpu = set_pc(write_register(
                           write_register(
                               [Cpu_reset(Cpu_new) EXCEPT
                                   !.wdt.counter = NOMINAL_PERIOD - left],
                               \H20, a),
                           \H21, b),
                       start)
    /\ program_memory = load_program(SkipProg)
    /\ q = [ steps |-> 0 ]
    /\ state = "Paused"
    /\ stats = NoStats
    /\ breakpoints = << >>
    /\ ret = Ret("load_program", "none", 0, NoObs, NoIsr)
    /\ hist = NoIsr
    /\ host = [ writes |-> 0, reset |-> TRUE ]

\* Simulator::step; q counts the steps
StepSkip ==
    /\ q.steps < MaxSkipSteps
    /\ \E r \in { Simulator_step(state, cpu, program_memory) } :
          StepCommit(r)
    /\ q' = [ steps |-> q.steps + 1 ]
    /\ UNCHANGED <<program_memory, state, breakpoints, host>>

SpecSkip == InitSkip /\ [][StepSkip]_vars

(***************************************************************************)
(* Indirect addressing: FSR is pointed at a register, and the register is  *)
(* read and written through INDF; the same read and write are made         *)
(* directly on a copy of the CPU for comparison.                           *)
(***************************************************************************)
MaxIndfCalls == 2      \* SpecIndf: register accesses made in one run

\* the registers FSR is pointed at
IndfTargets == { \H20, PCL, GPIO, TMR1L, TMR1H, T1CON, INTCON }

\* bytes written
IndfBytes == { \H00, \H31, \HFF }

\* PC placed by the host before the accesses
IndfPcs == { \H0000, \H0123 }

\* Cpu::reset, TMR1 loaded with 0x1234, PC placed, FSR pointed at target
IndfStart(target, pc) ==
    LET c0 == Cpu_reset(Cpu_new)
        c1 == write_register(c0, TMR1H, \H12)
        c2 == write_register(c1, TMR1L, \H34)
    IN  write_register(set_pc(c2, pc), FSR, target)

InitIndf ==
    /\ \E target \in IndfTargets, pc \in IndfPcs :
          /\ cpu = IndfStart(target, pc)
          /\ q = [ calls |-> 0, op |-> "none", target |-> target, value |-> 0,
                   indf |-> 0, direct |-> 0, before |-> IndfStart(target, pc) ]
    /\ program_memory = load_program(<< >>)
    /\ state = "Paused"
    /\ stats = NoStats
    /\ breakpoints = << >>
    /\ ret = Ret("new", "none", 0, NoObs, NoIsr)
    /\ hist = NoIsr
    /\ host = [ writes |-> 0, reset |-> TRUE ]

\* cpu.read_register(INDF); q.direct is what cpu.read_register(target)
\* returns on the same CPU
IndfRead ==
    /\ q.calls < MaxIndfCalls
    /\ q' = [q EXCEPT !.calls = q.calls + 1, !.op = "read",
                      !.indf = read_register(cpu, INDF),
                      !.direct = read_register(cpu, q.target),
                      !.before = cpu]
    /\ ret' = Ret("read_register", "none", 0, NoObs, NoIsr)
    /\ UNCHANGED <<cpu, program_memory, state, stats, breakpoints, hist, host>>

\* cpu.write_register(INDF, value); q.before is the CPU the write was made
\* on
IndfWrite ==
    /\ q.calls < MaxIndfCalls
    /\ \E v \in IndfBytes :
          /\ cpu' = write_register(cpu, INDF, v)
          /\ q' = [q EXCEPT !.calls = q.calls + 1, !.op = "write",
                            !.value = v, !.before = cpu]
    /\ ret' = Ret("write_register", "none", 0, NoObs, NoIsr)
    /\ UNCHANGED <<program_memory, state, stats, breakpoints, hist, host>>

NextIndf == IndfRead \/ IndfWrite

SpecIndf == InitIndf /\ [][NextIndf]_vars

(***************************************************************************)
(* Peripheral interrupts set up by a program: PIE1 is written in Bank 1    *)
(* through operand 0x0C, GIE and PEIE are set with RP0 left set or cleared *)
(* again, and Timer1 runs towards its overflow.                            *)
(***************************************************************************)
MaxIrqSteps == 12      \* SpecIrq: steps taken in one run

\* enables TMR1IE and the interrupts without leaving Bank 1
IrqBank1Prog ==
    << \H2808,   \* 0: GOTO 8
       \H0000, \H0000, \H0000,
       \H0000,   \* 4: NOP
       \H0009,   \* 5: RETFIE
       \H0000, \H0000,
       \H1683,   \* 8: BSF STATUS,5
       \H3001,   \* 9: MOVLW 0x01
       \H008C,   \* 10: MOVWF 0x0C     (PIE1 in Bank 1)
       \H30C0,   \* 11: MOVLW 0xC0
       \H008B,   \* 12: MOVWF INTCON   (GIE, PEIE)
       \H0000,   \* 13: NOP
       \H280D >> \* 14: GOTO 13

\* the same, back in Bank 0 before the interrupts are enabled
IrqBank0Prog ==
    << \H2808,   \* 0: GOTO 8
       \H0000, \H0000, \H0000,
       \H0000,   \* 4: NOP
       \H0009,   \* 5: RETFIE
       \H0000, \H0000,
       \H1683,   \* 8: BSF STATUS,5
       \H3001,   \* 9: MOVLW 0x01
       \H008C,   \* 10: MOVWF 0x0C     (PIE1 in Bank 1)
       \H1283,   \* 11: BCF STATUS,5
       \H30C0,   \* 12: MOVLW 0xC0
       \H008B,   \* 13: MOVWF INTCON   (GIE, PEIE)
       \H0000,   \* 14: NOP
       \H280E >> \* 15: GOTO 14

IrqPrograms == { IrqBank1Prog, IrqBank0Prog }

\* ticks left to the overflow of Timer1
IrqNear == { 2, 7, 9, 200 }

\* PIE1 as the host leaves it through Cpu::write_register(PIE1, ..)
IrqHostPie1 == { \H00, \H01 }

\* Cpu::reset, then the host loads TMR1, switches Timer1 on and writes PIE1
IrqStart(near, pie1) ==
    LET c0 == Cpu_reset(Cpu_new)
        c1 == write_register(c0, TMR1H, \HFF)
        c2 == write_register(c1, TMR1L, 256 - near)
        c3 == write_register(c2, T1CON, \H01)
    IN  write_register(c3, PIE1, pie1)

InitIrq ==
    /\ \E near \in IrqNear, pie1 \in IrqHostPie1 : cpu = IrqStart(near, pie1)
    /\ \E p \in IrqPrograms : program_memory = load_program(p)
    /\ q = [ steps |-> 0, written |-> FALSE, tmr1ie |-> 0 ]
    /\ state = "Paused"
    /\ stats = NoStats
    /\ breakpoints = << >>
    /\ ret = Ret("load_program", "none", 0, NoObs, NoIsr)
    /\ hist = NoIsr
    /\ host = [ writes |-> 0, reset |-> TRUE ]

\* the program has stored W in operand 0x0C with RP0 = 1 in the step that
\* returned r from CPU c: q notes bit 0 of the byte
pie1_after(c, r, h) ==
    IF /\ r.obs.branch = "exec" /\ r.obs.op = "MOVWF"
       /\ decode(read_program(program_memory, r.obs.fetch_pc)).f = \H0C
       /\ get_bank(c) = 1
    THEN [h EXCEPT !.written = TRUE, !.tmr1ie = c.w % 2, !.steps = h.steps + 1]
    ELSE [h EXCEPT !.steps = h.steps + 1]

\* Simulator::step
StepIrq ==
    /\ q.steps < MaxIrqSteps
    /\ \E r \in { Simulator_step(state, cpu, program_memory) } :
          /\ StepCommit(r)
          /\ q' = pie1_after(cpu, r, q)
    /\ UNCHANGED <<program_memory, state, breakpoints, host>>

SpecIrq == InitIrq /\ [][StepIrq]_vars

(***************************************************************************)
(* The control operations on a simulator whose host has set a breakpoint   *)
(* at the interrupt vector and enabled a flagged interrupt.                *)
(***************************************************************************)
\* main loop of NOPs, the routine at the vector clears T0IF
RunIrqProg ==
    << \H0000,   \* 0: NOP
       \H0000,   \* 1: NOP
       \H2800,   \* 2: GOTO 0
       \H0000,   \* 3: NOP
       \H110B,   \* 4: BCF INTCON,2
       \H0009 >> \* 5: RETFIE

\* the same, enabling the interrupt itself
RunIrqSelfProg ==
    << \H30A4,   \* 0: MOVLW 0xA4
       \H008B,   \* 1: MOVWF INTCON   (GIE, T0IE, T0IF)
       \H2800,   \* 2: GOTO 0
       \H0000,   \* 3: NOP
       \H110B,   \* 4: BCF INTCON,2
       \H0009 >> \* 5: RETFIE

BreakPrograms == { RunIrqProg, RunIrqSelfProg }

\* INTCON as the host leaves it: nothing enabled, or GIE with T0IE and T0IF
BreakIntcon == { \H00, \HA4 }

\* Simulator::new, load_program, cpu_mut().write_register(INTCON, ..),
\* add_breakpoint(0x0004)
InitBreak ==
    /\ \E intcon \in BreakIntcon : cpu = write_register(Cpu_new, INTCON, intcon)
    /\ \E p \in BreakPrograms : program_memory = load_program(p)
    /\ state = "Paused"
    /\ stats = NoStats
    /\ breakpoints = << interrupt_vector >>
    /\ ret = Ret("add_breakpoint", "none", 0, NoObs, NoIsr)
    /\ hist = NoIsr
    /\ host = NoHost
    /\ q = NoCall

SpecBreak == InitBreak /\ [][NextRun]_vars

(***************************************************************************)
(* run_n_cycles as a loop that runs on: the caller enters it, the loop     *)
(* takes its steps and returns.  The WDT is enabled or has been disabled   *)
(* by the host (Wdt::set_enabled).  q.iter is the parity of the number of  *)
(* iterations the loop has made.  The CPU cycle counter, which neither the *)
(* loop nor the step reads, is kept modulo MaxLiveCycles.                  *)
(***************************************************************************)
MaxLiveCycles == 8     \* SpecLive: run_n_cycles is called while the statistics count less

LivePrograms == { RunLoopProg, RunBadProg, RunSleepProg }

\* cycles left to the WDT timeout when the run starts
LiveWdtLeft == { 3, 4, 5, 6 }

\* Simulator::new, load_program, cpu_mut().wdt_mut().set_enabled(..)
InitLive ==
    /\ \E left \in LiveWdtLeft, enabled \in BOOLEAN :
          cpu = [Cpu_new EXCEPT
                    !.wdt = set_enabled([@ EXCEPT !.counter = NOMINAL_PERIOD - left],
                                        enabled)]
    /\ \E p \in LivePrograms : program_memory = load_program(p)
    /\ state = "Paused"
    /\ stats = NoStats
    /\ breakpoints = << >>
    /\ ret = Ret("load_program", "none", 0, NoObs, NoIsr)
    /\ hist = NoIsr
    /\ host = NoHost
    /\ q = [ call |-> "none", n |-> 0, left |-> 0, target |-> 0, start |-> 0,
             halted |-> FALSE, at_halt |-> 0, iter |-> 0 ]

\* Simulator::run_n_cycles up to its loop
LiveCall ==
    /\ stats.cycles_elapsed < MaxLiveCycles
    /\ RunNCycles

\* one iteration of the loop of run_n_cycles: the test of
\* stats.cycles_elapsed against the target, then self.step()?
LiveStep ==
    /\ q.call = "run_n_cycles"
    /\ stats.cycles_elapsed < q.target
    /\ \E r \in { Simulator_step(state, cpu, program_memory) } :
          /\ cpu' = [r.cpu EXCEPT !.cycles = r.cpu.cycles % MaxLiveCycles]
          /\ stats' = [ instructions_executed |->
                            stats.instructions_executed + r.d_instructions,
                        cycles_elapsed |-> stats.cycles_elapsed + r.d_cycles ]
          /\ ret' = Ret("run_n_cycles",
                        IF r.kind = "ok" THEN "running" ELSE r.kind,
                        r.cycles, r.obs, NoIsr)
          /\ q' = [q EXCEPT !.iter = 1 - q.iter,
                            !.call = IF r.kind = "ok" THEN q.call ELSE "none"]
    /\ UNCHANGED <<program_memory, state, breakpoints, hist, host>>

\* run_n_cycles returning Ok after its loop
LiveReturn == RunNReturn

NextLive == LiveCall \/ LiveStep \/ LiveReturn

\* the loop at its step makes an iteration, with whatever outcome
LoopIterates ==
    /\ q.call = "run_n_cycles"
    /\ stats.cycles_elapsed < q.target
    /\ \E after \in { q.call, "none" } :
          q' = [q EXCEPT !.iter = 1 - q.iter, !.call = after]

\* the loop, once entered, keeps running: its next iteration is made (the
\* steps of the specification that change q as LoopIterates does are those
\* of LiveStep) and its return is taken
SpecLive ==
    /\ InitLive
    /\ [][NextLive]_vars
    /\ WF_q(LoopIterates)
    /\ WF_vars(LiveReturn)

(***************************************************************************)
(* Vocabulary of the properties.                                           *)
(***************************************************************************)
Latch(c) == c.interrupts.interrupt_triggered

Gie(c) == Bit(c.memory.data_memory[INTCON], 7)

\* the interrupt check as Simulator::step and the CPU make it
Pending(c) ==
    check_interrupts(read_register(c, INTCON), read_register(c, PIE1),
                     read_register(c, PIR1))[1]

InstrAt(pc) == decode(read_program(program_memory, pc))

FileDestOps ==
    {"ADDWF", "ANDWF", "COMF", "DECF", "DECFSZ", "INCF", "INCFSZ", "IORWF",
     "MOVF", "RLF", "RRF", "SUBWF", "SWAPF", "XORWF"}

\* instruction i, executed on CPU c, stores into the data byte at address a
WritesFile(i, c, a) ==
    /\ \/ i.op \in {"MOVWF", "CLRF", "BCF", "BSF"}
       \/ i.op \in FileDestOps /\ i.d = 1
    /\ \/ i.f = a
       \/ i.f = INDF /\ And(c.memory.data_memory[FSR], \H7F) = a

\* the branches of Simulator::step that reach the interrupt check
Fetching == {"exec", "decode_err", "wdt_reset"}

FromResetBySteps == host.reset /\ host.writes = 0

(***************************************************************************)
(* C1 -- code bug                                                          *)
(***************************************************************************)
\* C1: in every state reached from Reset by steps over a loaded program the
\* program counter lies in [0, 0x2000), also right after a write to PCL.
C1_PcInRange ==
    FromResetBySteps => (cpu.pc >= 0 /\ cpu.pc < \H2000)

(***************************************************************************)
(* C2 -- corrected                                                         *)
(***************************************************************************)
\* C2 as stated: in every state reached from Reset by steps, the in-ISR
\* latch being set implies GIE = 0.
C2_LatchImpliesGieClear ==
    (FromResetBySteps /\ Latch(cpu)) => Gie(cpu) = 0

\* C2: servicing clears GIE, and while the latch is set a step leaves GIE
\* at 0 unless the instruction it executes stores into INTCON: a step ends
\* with the latch set and GIE = 1 only if it executed such an instruction,
\* or began with the latch set and GIE = 1 already.
C2_GieClearUntilIsrWritesIntcon ==
    [][ (ret'.op = "step" /\ Latch(cpu') /\ Gie(cpu') = 1)
        => \/ /\ ret'.obs.branch = "exec"
              /\ WritesFile(InstrAt(ret'.obs.fetch_pc), cpu, INTCON)
           \/ Latch(cpu) /\ Gie(cpu) = 1 /\ ~ret'.obs.interrupted ]_vars

\* an interrupt has just been serviced and the first instruction of its
\* routine executed: latch set, GIE clear
C2_Witness ==
    /\ ret.op = "step" /\ ret.obs.interrupted /\ ret.obs.op = "NOP"
    /\ Latch(cpu) /\ Gie(cpu) = 0

(***************************************************************************)
(* C3 -- confirmed                                                         *)
(***************************************************************************)
\* C3: while the in-ISR latch is set no step services an interrupt (at the
\* fetch the PC, the return stack, INTCON and the latch are as the step
\* found them), even with GIE = 1 and an enabled source flagged; the latch
\* is cleared only by executing RETFIE or by a reset.
C3_NoServiceWhileLatched ==
    [][ Latch(cpu)
        => /\ ret'.op = "step"
              => /\ ~ret'.obs.interrupted
                 /\ ret'.obs.branch \in Fetching
                    => ret'.obs.serviced = observe(cpu)
           /\ ~Latch(cpu')
              => \/ ret'.op = "reset"
                 \/ ret'.op = "step" /\ ret'.obs.branch = "exec"
                    /\ ret'.obs.op = "RETFIE"
                 \/ ret'.op = "step" /\ ret'.obs.branch = "wdt_reset" ]_vars

\* a step taken inside the routine with GIE, T0IE and T0IF all set, which
\* did not service anything and left the latch set
C3_Witness ==
    /\ ret.op = "step" /\ ret.obs.branch = "exec" /\ ~ret.obs.interrupted
    /\ ret.obs.serviced.in_isr
    /\ check_interrupts(ret.obs.serviced.intcon, ret.obs.serviced.pie1,
                        ret.obs.serviced.pir1)[1]
    /\ Latch(cpu)

(***************************************************************************)
(* C4 -- code bug (follows from C1)                                        *)
(***************************************************************************)
\* C4: a step that starts awake, latch clear, GIE = 1 and an enabled source
\* flagged services the interrupt before the fetch: it pushes the current
\* PC, clears only GIE in INTCON, sets PC to 0x0004 and the latch, and
\* leaves every flag and enable bit as it was.
C4_ServicingPushesCurrentPc ==
    [][ (ret'.op = "step" /\ state # "Halted" /\ ~cpu.sleeping
         /\ ~Latch(cpu) /\ Pending(cpu))
        => /\ ret'.obs.interrupted
           /\ ret'.obs.fetch_pc = \H0004
           /\ ret'.obs.serviced.pc = \H0004
           /\ ret'.obs.serviced.top = cpu.pc
           /\ ret'.obs.serviced.in_isr
           /\ ret'.obs.serviced.intcon
                = And(cpu.memory.data_memory[INTCON], \H7F)
           /\ ret'.obs.serviced.pir1 = cpu.memory.data_memory[PIR1]
           /\ ret'.obs.serviced.pie1 = cpu.memory.data_memory[PIE1] ]_vars

(***************************************************************************)
(* C5 -- confirmed                                                         *)
(***************************************************************************)
\* the condition of C5, bit by bit
ShouldInterrupt(intcon, pie1, pir1) ==
    /\ Bit(intcon, 7) = 1
    /\ \/ Bit(intcon, 5) = 1 /\ Bit(intcon, 2) = 1
       \/ Bit(intcon, 4) = 1 /\ Bit(intcon, 1) = 1
       \/ Bit(intcon, 3) = 1 /\ Bit(intcon, 0) = 1
       \/ /\ Bit(intcon, 6) = 1
          /\ \/ Bit(pie1, 0) = 1 /\ Bit(pir1, 0) = 1
             \/ Bit(pie1, 3) = 1 /\ Bit(pir1, 3) = 1
             \/ Bit(pie1, 6) = 1 /\ Bit(pir1, 6) = 1
             \/ Bit(pie1, 7) = 1 /\ Bit(pir1, 7) = 1

\* C5: for every (INTCON, PIE1, PIR1) the interrupt check answers true
\* exactly when GIE = 1 and (T0IE and T0IF, or INTE and INTF, or GPIE and
\* GPIF, or PEIE and one of TMR1, CM, AD, EE enabled and flagged); when it
\* answers true the vector is 0x0004; the controller is left as it was.
C5_CheckInterrupts ==
    q.done
    => /\ q.result[1] = ShouldInterrupt(q.intcon, q.pie1, q.pir1)
       /\ q.result[1] => q.result[2] = \H0004
       /\ cpu.interrupts = q.before

\* a peripheral source let through by PEIE alone
C5_Witness ==
    /\ q.done /\ q.result[1]
    /\ And(q.intcon, \H38) = 0 /\ Bit(q.intcon, 6) = 1
    /\ Bit(q.pie1, 3) = 1 /\ Bit(q.pir1, 3) = 1

(***************************************************************************)
(* C6 -- corrected                                                         *)
(***************************************************************************)
\* a RETFIE has just executed for the interrupt noted in ret.isr
RetfieDone ==
    /\ ret.op = "step" /\ ret.obs.branch = "exec" /\ ret.obs.op = "RETFIE"
    /\ ret.isr.open

C7_TickFlagsWaitForNextStep ==
    [][ (ret'.op = "step" /\ ret'.obs.branch = "exec"
         /\ (ret'.obs.tmr0_overflow \/ ret'.obs.tmr1_overflow))
        => /\ ret'.obs.interrupted = (~Latch(cpu) /\ Pending(cpu))
           /\ Latch(cpu') = (ret'.obs.op # "RETFIE" /\ ret'.obs.serviced.in_isr)
           /\ ret'.obs.tmr0_overflow
                => Bit(cpu'.memory.data_memory[INTCON], 2) = 1
           /\ ret'.obs.tmr1_overflow
                => Bit(cpu'.memory.data_memory[PIR1], 0) = 1 ]_vars

\* Timer1 has overflowed in the step just made; the interrupt is enabled
\* and pending, and has not been serviced
C7_Witness ==
    /\ ret.op = "step" /\ ret.obs.tmr1_overflow /\ ~ret.obs.interrupted
    /\ Pending(cpu) /\ ~Latch(cpu) /\ cpu.pc # interrupt_vector

(***************************************************************************)
(* C8 -- code bug                                                          *)
(***************************************************************************)
\* C8: whenever a step returns a decode error the whole simulator state is
\* what it was before the step, also when an interrupt was pending or the
\* CPU was sleeping at the start of the step.
C8_DecodeErrorLeavesState ==
    [][ (ret'.op = "step" /\ ret'.kind = "decode_err")
        => (cpu' = cpu /\ stats' = stats /\ state' = state) ]_vars

(***************************************************************************)
(* C9 -- confirmed                                                         *)
(***************************************************************************)
\* the WDT has timed out in the tick loop of the step just made, with the
\* CPU awake
WdtTimedOutAwake ==
    /\ ret.op = "step" /\ ret.obs.branch \in {"exec", "wdt_reset"}
    /\ ret.obs.wdt_timeout /\ ret.obs.op # "SLEEP"

C10_WdtWakesSleepingCpu ==
    [][ (state # "Halted" /\ cpu.sleeping /\ Wdt_tick(cpu.wdt)[2]
         /\ ret'.op = "step")
        => /\ ret'.kind = "ok"
           /\ ~cpu'.sleeping
           /\ Bit(cpu'.memory.data_memory[STATUS], 3) = 1
           /\ Bit(cpu'.memory.data_memory[STATUS], 4) = 0
           /\ And(cpu'.memory.data_memory[STATUS], \HE7)
                = And(cpu.memory.data_memory[STATUS], \HE7)
           /\ ret'.obs.op = "NONE"
           /\ stats' = stats
           /\ cpu'.pc = cpu.pc
           /\ cpu'.w = cpu.w
           /\ cpu'.memory.stack = cpu.memory.stack
           /\ cpu'.memory.stack_pointer = cpu.memory.stack_pointer
           /\ InstrAt(cpu'.pc - 1).op = "SLEEP" ]_vars

\* woken by the WDT inside a subroutine, W and the carry flag still set
C10_Witness ==
    /\ ret.op = "step" /\ ret.obs.branch = "wdt_wake"
    /\ cpu.w = \H55 /\ cpu.memory.stack_pointer = 1
    /\ Bit(cpu.memory.data_memory[STATUS], 0) = 1

(***************************************************************************)
(* C11 -- confirmed                                                        *)
(***************************************************************************)
\* C11: in every state reached from Reset by steps, the sleeping flag being
\* set implies STATUS.PD (bit 3) = 0.
C11_SleepingImpliesPdClear ==
    (FromResetBySteps /\ cpu.sleeping)
    => Bit(cpu.memory.data_memory[STATUS], 3) = 0

\* a step has been taken with the CPU asleep and left it asleep; the reset
\* before had set PD
C11_Witness ==
    /\ FromResetBySteps /\ cpu.sleeping
    /\ ret.op = "step" /\ ret.obs.branch = "asleep"

(***************************************************************************)
(* C12 -- confirmed                                                        *)
(***************************************************************************)
PopOps == {"RETURN", "RETLW", "RETFIE"}

\* C12: the return-stack depth stays within 0..8 whatever pushes and pops
\* are made, and neither a push on the full stack (CALL, interrupt
\* servicing) nor a pop on the empty one (RETURN, RETLW, RETFIE) errors or
\* stops the step: the push leaves depth 8 with the new address on top, the
\* pop leaves depth 0 and continues at address 0.
C12_StackDepthBounded ==
    [][ /\ cpu'.memory.stack_pointer \in 0 .. STACK_DEPTH
        /\ (ret'.op = "step" /\ ret'.obs.interrupted
             /\ cpu.memory.stack_pointer = STACK_DEPTH)
            => /\ ret'.obs.branch \in Fetching
               /\ ret'.obs.serviced.depth = STACK_DEPTH
               /\ ret'.obs.serviced.top = cpu.pc % \H2000
        /\ (ret'.op = "step" /\ ret'.obs.op = "CALL"
             /\ ret'.obs.serviced.depth = STACK_DEPTH)
            => /\ ret'.kind = "ok" /\ ret'.obs.branch = "exec"
               /\ cpu'.memory.stack_pointer = STACK_DEPTH
               /\ pop_stack_value(cpu'.memory)
                    = (ret'.obs.fetch_pc + 1) % \H2000
        /\ (ret'.op = "step" /\ ret'.obs.op \in PopOps
             /\ ret'.obs.serviced.depth = 0)
            => /\ ret'.kind = "ok" /\ ret'.obs.branch = "exec"
               /\ cpu'.memory.stack_pointer = 0
               /\ cpu'.pc = 0 ]_vars

\* a CALL has just executed on a full return stack
C12_Witness ==
    /\ ret.op = "step" /\ ret.kind = "ok" /\ ret.obs.op = "CALL"
    /\ ret.obs.serviced.depth = STACK_DEPTH
    /\ cpu.memory.stack_pointer = STACK_DEPTH

\* a return has just executed on an empty return stack
C12_PopOnEmpty ==
    /\ ret.op = "step" /\ ret.kind = "ok" /\ ret.obs.op \in PopOps
    /\ ret.obs.serviced.depth = 0 /\ cpu.memory.stack_pointer = 0

(***************************************************************************)
(* C13 -- confirmed                                                        *)
(***************************************************************************)
\* C13: after more than 8 addresses a1..an pushed on the empty stack, the
\* stack holds the 8 most recent ones: the first 8 pops return an, a(n-1),
\* ..., a(n-7) in that order, every further pop returns 0, and the depth is
\* 0 from the eighth pop on.
C13_StackKeepsLastEight ==
    Len(q.pushed) > STACK_DEPTH
    => /\ \A j \in 1 .. Len(q.popped) :
            q.popped[j] = IF j <= STACK_DEPTH
                          THEN q.pushed[Len(q.pushed) - j + 1]
                          ELSE 0
       /\ cpu.memory.stack_pointer
            = IF Len(q.popped) >= STACK_DEPTH THEN 0
              ELSE STACK_DEPTH - Len(q.popped)

\* two frames were lost to overflow, all eight kept ones popped, and one
\* more pop made on the empty stack
C13_Witness ==
    /\ Len(q.pushed) = STACK_DEPTH + 2
    /\ Len(q.popped) = STACK_DEPTH + 1
    /\ q.popped[STACK_DEPTH] = q.pushed[3]
    /\ q.popped[STACK_DEPTH + 1] = 0

(***************************************************************************)
(* C14 -- code bug                                                         *)
(***************************************************************************)
\* the rate 1:N selected by the PS bits of an OPTION_REG byte with PSA = 1
WdtRate(option) == Pow2(option % 8)

\* C14: with the prescaler assigned to the WDT at 1:N, counting from a
\* cleared WDT, the tick signals a timeout for the first time on exactly
\* tick 18000 x N: not before, and on that tick.
C14_WdtTimeoutAfterPeriodTimesRate ==
    /\ q.first # 0 => q.first = NOMINAL_PERIOD * WdtRate(q.option)
    /\ q.ticks >= NOMINAL_PERIOD * WdtRate(q.option) => q.first # 0

\* what the code does at 1:1: the first timeout is on tick 18000
C14_RateOne ==
    q.option = \H08 /\ q.first = NOMINAL_PERIOD /\ q.ticks > NOMINAL_PERIOD

(***************************************************************************)
(* C15 -- code bug                                                         *)
(***************************************************************************)
\* the register at address a has been written through the dispatcher
Written(a) == q.phase # "start" /\ q.addr = a

\* C15: a write of v to OPTION_REG through the dispatcher reconfigures
\* Timer0 (clock source from T0CS, prescaler assignment from PSA, divisor
\* 2^(PS+1)) and the WDT (prescaler assigned iff PSA = 1, and then rate
\* 2^PS and timeout period 18000 x rate).
C15_OptionWriteConfiguresTimer0AndWdt ==
    Written(OPTION_REG)
    => /\ cpu.timer0.clock_source_external = (Bit(q.value, 5) = 1)
       /\ cpu.timer0.prescaler_assigned_to_wdt = (Bit(q.value, 3) = 1)
       /\ cpu.timer0.prescaler_rate = Pow2((q.value % 8) + 1)
       /\ cpu.wdt.prescaler_assigned = (Bit(q.value, 3) = 1)
       /\ Bit(q.value, 3) = 1
            => /\ cpu.wdt.prescaler_rate = Pow2(q.value % 8)
               /\ cpu.wdt.timeout_period = NOMINAL_PERIOD * Pow2(q.value % 8)

\* the Timer0 half of C15, which the code does: PSA = 1 and PS = 111
\* written, Timer0 left without prescaler and with divisor 256 noted
C15_Timer0Configured ==
    /\ Written(OPTION_REG) /\ q.value = \H0F
    /\ cpu.timer0.prescaler_assigned_to_wdt
    /\ cpu.timer0.prescaler_rate = 256
    /\ cpu.timer0.prescaler = 0 /\ q.before.timer0.prescaler = 1

(***************************************************************************)
(* C16 -- code bug                                                         *)
(***************************************************************************)
\* C16: a write of v to TMR0 through the dispatcher sets the Timer0 counter
\* to v and clears the Timer0 prescaler accumulator, and leaves the
\* prescaler divisor as it was.
C16_Tmr0WriteSetsCounter ==
    Written(TMR0)
    => /\ cpu.timer0.counter = q.value
       /\ cpu.timer0.prescaler = 0
       /\ cpu.timer0.prescaler_rate = q.before.timer0.prescaler_rate

(***************************************************************************)
(* C19 -- code bug                                                         *)
(***************************************************************************)
\* C19: for every byte v, after a write of v to TRISIO through the
\* dispatcher a read of TRISIO returns (v & 0x3F) | 0x08, and the direction
\* of every pin follows the written bit, GP3 remaining an input.
C19_TrisioWriteReadBack ==
    (q.phase = "read" /\ q.addr = TRISIO)
    => /\ q.read = Or(And(q.value, \H3F), \H08)
       /\ \A pin \in 0 .. 5 :
            Bit(cpu.gpio.tris, pin) = IF pin = 3 THEN 1 ELSE Bit(q.value, pin)

\* what the code does for a program in Bank 1 storing into address 0x05:
\* the direction register takes (v & 0x3F) | 0x08
C19_TrisViaBank1 ==
    /\ Written(GPIO) /\ get_bank(q.before) = 1 /\ q.value = \HF6
    /\ cpu.gpio.tris = \H3E

(***************************************************************************)
(* C20 -- code bug                                                         *)
(***************************************************************************)
\* C20: after any write of any byte to WPU the stored weak-pull-up byte has
\* bit 3 (GP3), bit 5 (GP5), bit 6 and bit 7 equal to 0.
C20_WpuMasksPinsWithoutPullup ==
    Written(WPU) => And(cpu.gpio.weak_pullup, \HE8) = 0

\* bits 3, 6 and 7 are cleared by the write
C20_WpuBit3Cleared ==
    /\ Written(WPU) /\ q.value = \HCF
    /\ cpu.gpio.weak_pullup = \H07

(***************************************************************************)
(* C17 -- corrected                                                        *)
(***************************************************************************)
\* the tick on which Timer0, started at counter 256 - near with its
\* accumulator at 0, is due to overflow
Tmr0Due ==
    IF q.psa = 1 THEN q.near ELSE q.near * Pow2(q.ps + 1)

\* the timers have ticked up to tick number due without a reset of the CPU
\* before it
TickedTo(qq, due) ==
    qq.ticks >= due /\ (qq.reset_at = 0 \/ qq.reset_at >= due)

Tmr1Due == q.near * Pow2(q.ps % 4)

\* the Timer1 counter right after the tick of this step that overflowed
Tmr1AfterOverflow(c, c_after) ==
    IF Timer1_tick(c.timer1)[2] THEN Timer1_tick(c.timer1)[1].counter
    ELSE c_after.timer1.counter

\* C18 as stated: Timer1 enabled on the internal clock at 1:N, counter c,
\* prescaler accumulator 0: the tick first reports overflow on exactly tick
\* (65536 - c) x N, the counter reads 0x0000 right after that tick, and
\* the step containing it sets TMR1IF (PIR1 bit 0).
C18_Timer1OverflowSetsTmr1if ==
    [][ /\ q'.first1 # 0 => q'.first1 = Tmr1Due
        /\ TickedTo(q', Tmr1Due) => q'.first1 # 0
        /\ ret'.obs.tmr1_overflow
             => /\ Tmr1AfterOverflow(cpu, cpu') = 0
                /\ Bit(cpu'.memory.data_memory[PIR1], 0) = 1 ]_vars

\* C18: the overflow ticks and the counter as stated; the step containing
\* the tick sets TMR1IF, unless the WDT times out with the CPU awake on
\* that tick or a later tick of the same step: the step then leaves the
\* CPU reset, PIR1 = 0x00.
C18_Timer1OverflowTick ==
    [][ /\ q'.first1 # 0 => q'.first1 = Tmr1Due
        /\ TickedTo(q', Tmr1Due) => q'.first1 # 0
        /\ ret'.obs.tmr1_overflow
             => /\ Tmr1AfterOverflow(cpu, cpu') = 0
                /\ IF ret'.obs.branch = "wdt_reset"
                   THEN cpu'.memory.data_memory[PIR1] = \H00
                   ELSE Bit(cpu'.memory.data_memory[PIR1], 0) = 1 ]_vars

\* Timer1 at 1:8 loaded with 0xFFFE has overflowed on tick 16; TMR1IF is
\* set beside the flags PIR1 had, and TMR1H:TMR1L read 0
C18_Witness ==
    /\ q.ps % 4 = 3 /\ q.near = 2 /\ q.first1 = 16
    /\ ret.obs.tmr1_overflow
    /\ cpu.memory.data_memory[PIR1] = \H49
    /\ read_register(cpu, TMR1L) = 0 /\ read_register(cpu, TMR1H) = 0

(***************************************************************************)
(* C21 -- confirmed                                                        *)
(***************************************************************************)
\* pin has its peripheral override enabled
Overridden(g, pin) == (g.peripheral_output_enable \div Pow2(pin)) % 2 = 1

\* pin is an input (its TRIS bit is 1)
IsInput(g, pin) == (g.tris \div Pow2(pin)) % 2 = 1

\* C21: for every GPIO state and each pin 0..5 the bit returned by a read
\* of GPIO is the peripheral value if the pin's override is enabled, else
\* the externally driven bit if the pin is an input, else the port-latch
\* bit; bits 6 and 7 of the result are 0; the observed pin state is HighZ
\* exactly for input pins without an override.
C21_GpioReadResolvesPins ==
    LET g == cpu.gpio
        r == read_register(cpu, GPIO)
    IN  /\ r \in 0 .. 63
        /\ \A pin \in 0 .. 5 :
              /\ (r \div Pow2(pin)) % 2
                   = IF Overridden(g, pin)
                     THEN (g.peripheral_output_value \div Pow2(pin)) % 2
                     ELSE IF IsInput(g, pin)
                          THEN (g.external_pins \div Pow2(pin)) % 2
                          ELSE (g.port_value \div Pow2(pin)) % 2
              /\ get_pin_state(g, pin) = "HighZ"
                   <=> (IsInput(g, pin) /\ ~Overridden(g, pin))

\* GP0 is an output with latch 1 and a low pin outside, GP3 an input held
\* low, GP5 an input overridden high by a peripheral: the read is 0x35
C21_Witness ==
    /\ cpu.gpio.tris = \H2A /\ cpu.gpio.port_value = \H15
    /\ cpu.gpio.external_pins = \H00
    /\ cpu.gpio.peripheral_output_enable = \H20
    /\ cpu.gpio.peripheral_output_value = \H20
    /\ read_register(cpu, GPIO) = \H35
    /\ get_pin_state(cpu.gpio, 0) = "High"
    /\ get_pin_state(cpu.gpio, 3) = "HighZ"
    /\ get_pin_state(cpu.gpio, 5) = "High"

(***************************************************************************)
(* C22 -- code_bug                                                         *)
(***************************************************************************)
\* C22: after Halt and until Reset is called, every Step returns the
\* halted error without changing any CPU state, and no operation of the
\* simulator (Run, RunNInstructions, RunNCycles included) executes an
\* instruction or takes the simulator out of the Halted state.
C22_HaltedUntilReset ==
    [][ (q.halted /\ q'.halted)
        => /\ state' = "Halted"
           /\ cpu' = cpu
           /\ stats' = stats
           /\ ret'.op = "step" => ret'.kind = "halted" ]_vars

\* a Step on the halted simulator has returned the halted error
C22_StepOnHalted ==
    /\ q.halted /\ state = "Halted"
    /\ ret.op = "step" /\ ret.kind = "halted"

\* Run on the halted simulator has executed instructions and returned at the
\* breakpoint, leaving the simulator Paused
C22_RunAfterHalt ==
    /\ q.halted /\ state = "Paused"
    /\ ret.op = "run" /\ ret.kind = "ok"
    /\ stats.instructions_executed > q.at_halt

(***************************************************************************)
(* C23 -- confirmed                                                        *)
(***************************************************************************)
\* C23: whenever Run returns success, the simulator state is Paused and PC
\* is an address in the breakpoint set; whenever Run returns an error, the
\* simulator state is Error and the error is the one returned by the
\* failing Step (the decode error at the PC of the word that does not
\* decode).
C23_RunReturns ==
    ret.op = "run"
    => /\ ret.kind \in { "running", "ok", "decode_err" }
       /\ ret.kind = "running" => state = "Running" /\ q.call = "run"
       /\ ret.kind = "ok"
            => /\ state = "Paused"
               /\ \E i \in 1 .. Len(breakpoints) : breakpoints[i] = cpu.pc
       /\ ret.kind = "decode_err"
            => /\ state = "Error"
               /\ ret.obs.branch = "decode_err"
               /\ ret.obs.fetch_pc = cpu.pc
               /\ decode(read_program(program_memory, cpu.pc)).op = "ERR"

\* the breakpoint test: run has returned at 0x002 after MOVLW 0x55 and
\* MOVWF 0x20
C23_Witness ==
    /\ ret.op = "run" /\ ret.kind = "ok"
    /\ state = "Paused" /\ cpu.pc = \H002 /\ breakpoints = << \H002 >>
    /\ cpu.w = \H55 /\ cpu.memory.data_memory[\H20] = \H55
    /\ stats.instructions_executed = q.start + 2

\* run has returned the decode error of the word at 0x002
C23_RunError ==
    /\ ret.op = "run" /\ ret.kind = "decode_err"
    /\ state = "Error" /\ cpu.pc = \H002

(***************************************************************************)
(* C24 -- confirmed                                                        *)
(***************************************************************************)
\* the data memory every reset leaves: STATUS = 0x18, the TRISIO cell 0x3F
ResetData ==
    [a \in 0 .. 255 |-> IF a = 3 THEN 24 ELSE IF a = 133 THEN 63 ELSE 0]

\* the transition is a Simulator::reset, or a step in which the WDT reset
\* the CPU
Resetting == ret'.op = "reset" \/ ret'.obs.branch = "wdt_reset"

\* C24: Reset, and a WDT-induced device reset inside a Step, leave every
\* program-memory word and every EEPROM byte unchanged, while PC, W, data
\* memory, the stack pointer, the peripherals, the in-ISR latch and the
\* sleeping flag are reinitialized to the same values whatever the state
\* before.
C24_ResetKeepsProgramAndEeprom ==
    [][ Resetting
        => /\ program_memory' = program_memory
           /\ cpu'.memory.eeprom = cpu.memory.eeprom
           /\ cpu'.pc = 0 /\ cpu'.w = 0
           /\ cpu'.memory.data_memory = ResetData
           /\ cpu'.memory.stack_pointer = 0
           /\ cpu'.gpio = Gpio_new
           /\ cpu'.timer0 = Timer0_new /\ cpu'.timer1 = Timer1_new
           /\ cpu'.wdt = Wdt_new
           /\ cpu'.interrupts = InterruptController_new
           /\ ~in_isr(cpu'.interrupts)
           /\ cpu'.sleeping = FALSE ]_vars

\* the WDT has reset the CPU inside the interrupt routine: the latch was
\* set and GIE, T0IE, T0IF were written when the step began; the EEPROM
\* byte is still there
C24_Witness ==
    /\ ret.op = "step" /\ ret.obs.branch = "wdt_reset"
    /\ ret.obs.serviced.in_isr /\ ret.obs.serviced.intcon # 0
    /\ ret.obs.serviced.depth = 1
    /\ read_eeprom(cpu.memory, \H10) = \H55
    /\ program_memory = load_program(ProgIsr)
    /\ cpu.pc = 0 /\ cpu.memory.stack_pointer = 0

\* Simulator::reset has been called on a sleeping CPU
C24_ResetAsleep ==
    /\ ret.op = "reset" /\ program_memory = load_program(ProgSleep)
    /\ read_eeprom(cpu.memory, \H10) = \H55
    /\ ~cpu.sleeping /\ cpu.wdt.counter = 0

(***************************************************************************)
(* C25 -- code_bug                                                         *)
(***************************************************************************)
\* C25: every Step adds the same number of cycles to the simulator
\* statistics and to the CPU cycle counter, so after any sequence of Steps
\* from Reset (sleeping steps, WDT wakes and WDT-induced resets included)
\* the statistics cycle count equals the CPU cycle counter.
C25_StatsCyclesEqualCpuCycles ==
    [][ /\ ret'.op = "step"
             => stats'.cycles_elapsed - stats.cycles_elapsed
                  = cpu'.cycles - cpu.cycles
        /\ stats'.cycles_elapsed = cpu'.cycles ]_vars

\* a step that executed an instruction and was not cut short by a WDT reset
\* has added its cycles to both counters
C25_ExecutedStepCountsBoth ==
    /\ ret.op = "step" /\ ret.obs.branch = "exec" /\ ret.cycles = 2
    /\ stats.cycles_elapsed = cpu.cycles /\ cpu.cycles > 2

\* the counters apart after a step taken asleep ...
C25_AsleepStep ==
    /\ ret.op = "step" /\ ret.obs.branch = "asleep"
    /\ cpu.cycles = stats.cycles_elapsed + 1

\* ... and after a step in which the WDT reset the CPU
C25_WdtResetStep ==
    /\ ret.op = "step" /\ ret.obs.branch = "wdt_reset"
    /\ cpu.cycles = 0 /\ stats.cycles_elapsed > 0

(***************************************************************************)
(* C26 -- code_bug                                                         *)
(***************************************************************************)
\* the ways a step returns Ok: an instruction executed, a WDT reset after
\* the instruction, a WDT wake, a cycle spent asleep
OkBranches == { "exec", "wdt_reset", "wdt_wake", "asleep" }

\* C26: every Step that returns success increases instructions_executed by
\* exactly 1, so after RunNInstructions(n) returns success the instruction
\* counter has grown by exactly n.
C26_OkStepCountsOneInstruction ==
    [][ /\ ret'.obs.branch \in OkBranches
             => stats'.instructions_executed
                  = stats.instructions_executed + 1
        /\ (ret'.op = "run_n_instructions" /\ ret'.kind = "ok")
             => stats'.instructions_executed = q.start + q.n ]_vars

\* run_n_instructions(3) has returned Ok after NOP, SLEEP and one step
\* asleep: two instructions counted
C26_RunNShort ==
    /\ ret.op = "run_n_instructions" /\ ret.kind = "ok" /\ q.n = 3
    /\ cpu.sleeping
    /\ stats.instructions_executed = q.start + 2

\* run_n_instructions(3) has returned Ok with three instructions counted
C26_RunNExact ==
    /\ ret.op = "run_n_instructions" /\ ret.kind = "ok" /\ q.n = 3
    /\ program_memory = load_program(RunLoopProg)
    /\ stats.instructions_executed = q.start + 3

(***************************************************************************)
(* C27 -- code_bug                                                         *)
(***************************************************************************)
\* C27: for every bank-specific data address a >= 0x0C that has no
\* dedicated dispatcher arm, a value written to a while Bank 1 is selected
\* does not change the value read at a while Bank 0 is selected, and a
\* value written in Bank 0 does not change the value read in Bank 1.
C27_BanksAreSeparate ==
    q.phase = "read" => q.before = q.first /\ q.after = q.before

\* an address with bit 7 set keeps its Bank 0 byte over a write in Bank 1
C27_HighAddressKept ==
    /\ q.phase = "read" /\ q.addr = \HA0 /\ q.bank = 0
    /\ q.first = \H55 /\ q.second = \HAA /\ q.after = \H55
    /\ cpu.memory.data_memory[\HA0] = \H55
    /\ cpu.memory.data_memory[\H20] = \HAA

\* for an address below 0x80 both banks are the same cell
C27_BanksAlias ==
    (q.phase = "read" /\ q.addr < 128) => q.after = q.second

(***************************************************************************)
(* C28 -- corrected                                                        *)
(***************************************************************************)
\* the call operand of the instruction that the step fetched
FetchedK == And(read_program(program_memory, ret'.obs.fetch_pc), \H7FF)

BranchTarget == Or(And(cpu'.memory.data_memory[PCLATH], \H18) * 256, FetchedK)

Executed(ops) ==
    ret'.op = "step" /\ ret'.obs.branch = "exec" /\ ret'.obs.op \in ops

\* CALL k at p: `next` on top of the stack and PC at the target; GOTO k:
\* the same PC and the stack as it was; RETURN or RETLW with the frame of
\* the CALL still on top: PC = `next` and the depth the CALL found.
BranchesAndReturns(next(_)) ==
    /\ Executed({"CALL"})
       => /\ pop_stack_value(cpu'.memory) = next(ret'.obs.fetch_pc)
          /\ cpu'.pc = BranchTarget
          /\ ret'.obs.serviced.depth < STACK_DEPTH
             => cpu'.memory.stack_pointer = ret'.obs.serviced.depth + 1
    /\ Executed({"GOTO"})
       => /\ cpu'.pc = BranchTarget
          /\ cpu'.memory.stack_pointer = ret'.obs.serviced.depth
          /\ pop_stack_value(cpu'.memory) = ret'.obs.serviced.top
    /\ (Executed({"RETURN", "RETLW"}) /\ q.open /\ ~ret'.obs.interrupted
        /\ q.depth < STACK_DEPTH)
       => /\ cpu'.pc = next(q.p)
          /\ cpu'.memory.stack_pointer = q.depth

PlusOne(p) == p + 1

PlusOne13(p) == (p + 1) % \H2000

\* C28 as stated: the pushed address and the PC after the return are p + 1
C28_CallPushesNextAndReturnRestores == [][ BranchesAndReturns(PlusOne) ]_vars

\* C28: in a step that does not end in a WDT reset, CALL k executed at
\* address p pushes (p + 1) mod 0x2000 and sets PC = ((PCLATH & 0x18) << 8)
\* | k (GOTO k sets the same PC without pushing); a RETURN or RETLW
\* executed afterwards with the stack untouched in between sets PC =
\* (p + 1) mod 0x2000 and restores the stack depth the CALL found, provided
\* that depth was below 8.
C28_CallPushesNext13AndReturnRestores ==
    [][ BranchesAndReturns(PlusOne13) ]_vars

\* RETLW has come back from the CALL at 0x002 that PCLATH = 0x18 sent to
\* 0x1805 with seven frames on the stack
C28_Witness ==
    /\ ret.op = "step" /\ ret.obs.branch = "exec" /\ ret.obs.op = "RETLW"
    /\ q.returned /\ q.p = \H0002 /\ q.depth = 7
    /\ ret.obs.fetch_pc = \H1806
    /\ cpu.pc = \H0003 /\ cpu.memory.stack_pointer = 7 /\ cpu.w = \H42

(***************************************************************************)
(* C29 -- code bug                                                         *)
(***************************************************************************)
IsRecord(d) == d.bytes # << >>

GoodSum(d) == ByteSum(d.bytes) % 256 = 0

\* a record the format allows: count right, type known, sum 0 modulo 256
Sound(d) ==
    /\ IsRecord(d) /\ Len(d.bytes) = d.bytes[1] + 5
    /\ d.bytes[4] \in RecordTypes /\ GoodSum(d)

Skipped(d) == ~IsRecord(d) /\ (d.text = << >> \/ Head(d.text) = ";")

\* the loader gets as far as line i: no error and no EOF before it
Reached(i) ==
    \A j \in 1 .. i - 1 :
        \/ Skipped(q.input[j])
        \/ Sound(q.input[j]) /\ q.input[j].bytes[4] # EndOfFile

IsBase(d) == Sound(d) /\ d.bytes[4] \in {2, 4} /\ d.bytes[1] >= 2

BaseOf(d) ==
    (d.bytes[5] * 256 + d.bytes[6]) * (IF d.bytes[4] = 4 THEN 65536 ELSE 16)

\* the base that the latest 02/04 record before line i has set
BaseAt(i) ==
    IF \E j \in 1 .. i - 1 : IsBase(q.input[j])
    THEN BaseOf(q.input[CHOOSE j \in 1 .. i - 1 :
                           /\ IsBase(q.input[j])
                           /\ \A k \in j + 1 .. i - 1 : ~IsBase(q.input[k])])
    ELSE 0

DataAt(i) == Reached(i) /\ Sound(q.input[i]) /\ q.input[i].bytes[4] = 0

AbsAddress(i) == BaseAt(i) + q.input[i].bytes[2] * 256 + q.input[i].bytes[3]

Payload(i) == SubSeq(q.input[i].bytes, 5, Len(q.input[i].bytes) - 1)

\* the loader's buffers after the first n lines
LoadedUpTo(n) == load_loop(SubSeq(q.lines, 1, n), 1, NewLoad)

Holds(buf, off, data) ==
    Len(buf) >= off + Len(data) /\ SubSeq(buf, off + 1, off + Len(data)) = data

ProgramRange == 0 .. \H1FFF

EepromRange == \H2100 .. \H217F

\* C29: for a data record at absolute address a (base from the latest 02/04
\* record plus the record address), the payload goes to the program byte
\* buffer only if a is in [0x0000, 0x2000), to the EEPROM buffer at offset
\* a - 0x2100 exactly when a is in [0x2100, 0x2180), and becomes the
\* configuration word exactly when a = 0x2007; a data record at any other
\* address never changes the returned program words.
C29_DataRecordGoesToItsRegion ==
    q.called =>
      \A i \in 1 .. Len(q.input) :
        DataAt(i) =>
          LET before == LoadedUpTo(i - 1)
              after  == LoadedUpTo(i)
              a      == AbsAddress(i)
              pay    == Payload(i)
          IN  /\ after.program_bytes # before.program_bytes
                 => a \in ProgramRange
              /\ after.eeprom_data # before.eeprom_data <=> a \in EepromRange
              /\ a \in EepromRange
                 => Holds(after.eeprom_data, a - \H2100, pay)
              /\ Len(pay) >= 2
                 => /\ after.config_word # before.config_word <=> a = \H2007
                    /\ a = \H2007
                       => after.config_word = << pay[1] + 256 * pay[2] >>
              /\ a \notin ProgramRange
                 => program_words(after.program_bytes)
                      = program_words(before.program_bytes)

\* base 0x2000 from an 02 record, data at 0x0100: the payload is the
\* EEPROM's first two bytes and no program word is returned
C29_EepromRecord ==
    /\ q.called /\ q.result.ok
    /\ q.input[1] = RecordLine(Sealed(Body(ExtendedSegmentAddress, 0,
                                           << \H02, \H00 >>)))
    /\ q.input[2] = RecordLine(Sealed(Body(Data, \H0100, HexPayload)))
    /\ q.input[3] = EofLine
    /\ q.result.hex_program.eeprom = HexPayload
    /\ q.result.hex_program.program = << >>
    /\ q.result.hex_program.config = << >>

(***************************************************************************)
(* C30 -- confirmed                                                        *)
(***************************************************************************)
\* C30: a record is accepted only if the sum of all its bytes, checksum
\* included, is 0 modulo 256; a load that reaches, before the EOF record,
\* a record with another checksum byte fails with an error that names the
\* 1-based number of that record's line, and returns no program.
C30_BadChecksumFailsTheLoad ==
    q.called =>
      /\ q.result.ok
         => \A i \in 1 .. Len(q.input) :
               (Reached(i) /\ IsRecord(q.input[i])) => GoodSum(q.input[i])
      /\ \A i \in 1 .. Len(q.input) :
            (Reached(i) /\ IsRecord(q.input[i]) /\ ~GoodSum(q.input[i]))
            => /\ ~q.result.ok
               /\ q.result.err_line = i
               /\ q.result.hex_program = NoProgram

\* a comment, then a data record with its checksum byte altered: the load
\* fails on line 2
C30_Witness ==
    /\ q.called /\ ~q.result.ok
    /\ q.input[1] = TextLine(<< ";", "c" >>)
    /\ q.input[2] = RecordLine(Broken(Body(Data, \H0000, HexPayload)))
    /\ q.lines[2] = << ":", "0", "2", "0", "0", "0", "0", "0", "0",
                       "5", "5", "3", "0", "7", "A" >>
    /\ q.result.err = "Checksum mismatch" /\ q.result.err_line = 2

(***************************************************************************)
(* C31 -- corrected                                                        *)
(***************************************************************************)
\* the step about to be taken finds the CPU sleeping, its WDT tick is no
\* timeout, and GIE is set with an enabled interrupt source flagged
WakesByInterrupt(c) ==
    /\ c.sleeping
    /\ ~Wdt_tick(c.wdt)[2]
    /\ ShouldInterrupt(c.memory.data_memory[INTCON], c.memory.data_memory[PIE1],
                       c.memory.data_memory[PIR1])

\* the step woke the CPU with TO = 1 and PD = 0, and serviced the interrupt
\* if the latch was clear before it (latch)
WokeAndServiced(r, latch) ==
    /\ r.obs.woke
    /\ Bit(r.obs.serviced.status, 4) = 1
    /\ Bit(r.obs.serviced.status, 3) = 0
    /\ r.obs.interrupted = ~latch
    /\ ~latch => /\ r.obs.serviced.pc = interrupt_vector
                 /\ r.obs.serviced.in_isr
                 /\ Bit(r.obs.serviced.intcon, 7) = 0
    /\ r.obs.fetch_pc = r.obs.serviced.pc

C31_WokeIntoDecodeError ==
    /\ ret.op = "step" /\ ret.obs.woke /\ ~ret.obs.interrupted
    /\ ret.kind = "decode_err"

(***************************************************************************)
(* C32 -- confirmed                                                        *)
(***************************************************************************)
\* the step about to be taken finds the CPU sleeping and nothing to wake
\* it: its WDT tick is no timeout and no enabled source is flagged under
\* GIE = 1
StaysAsleep(c) ==
    /\ c.sleeping
    /\ ~Wdt_tick(c.wdt)[2]
    /\ ~ShouldInterrupt(c.memory.data_memory[INTCON], c.memory.data_memory[PIE1],
                        c.memory.data_memory[PIR1])

\* C32: a step taken asleep that does not wake the CPU changes only the WDT
\* (by one tick) and the CPU cycle counter (by 1): PC, W, data memory, the
\* stack, the timers, the latch and the sleeping flag stay, no instruction
\* is fetched and the statistics count none.
C32_AsleepStepOnlyTicksWdt ==
    [][ (StaysAsleep(cpu) /\ ret'.op = "step")
        => /\ cpu' = [cpu EXCEPT !.wdt = Wdt_tick(cpu.wdt)[1],
                                 !.cycles = cpu.cycles + 1]
           /\ cpu'.sleeping
           /\ ret'.kind = "ok" /\ ret'.cycles = 1
           /\ ret'.obs.branch = "asleep"
           /\ ret'.obs.fetch_pc = -1 /\ ret'.obs.op = "NONE"
           /\ stats' = stats ]_vars

\* a step has been taken asleep with the timers running and near their
\* overflow, and the CPU still sleeps with the WDT one tick further
C32_Witness ==
    /\ ret.op = "step" /\ ret.obs.branch = "asleep"
    /\ cpu.sleeping /\ cpu.wdt.counter > 0
    /\ cpu.timer1.enabled /\ cpu.timer1.counter = 65535
    /\ cpu.cycles = 2

(***************************************************************************)
(* C33 -- corrected                                                        *)
(***************************************************************************)
\* the instructions of the programs of SpecSleep that write no timer, no
\* WDT and no OPTION_REG
PlainOps == {"NOP", "GOTO", "BCF", "BSF", "RETFIE"}

\* the cycle count the executor returned in the step that returned r
ExecutorCycles(r) == IF r.obs.interrupted THEN r.cycles - 2 ELSE r.cycles

\* the step executed an instruction of PlainOps and did not end in a WDT
\* reset
PlainStep(r) ==
    /\ r.op = "step" /\ r.kind = "ok"
    /\ r.obs.branch = "exec" /\ r.obs.op \in PlainOps

\* a timer or the WDT after n ticks that report nothing the step acts on
RECURSIVE Timer0Ticked(_, _)
Timer0Ticked(t, n) == IF n = 0 THEN t ELSE Timer0Ticked(Timer0_tick(t)[1], n - 1)

RECURSIVE Timer1Ticked(_, _)
Timer1Ticked(t, n) == IF n = 0 THEN t ELSE Timer1Ticked(Timer1_tick(t)[1], n - 1)

RECURSIVE WdtTicked(_, _)
WdtTicked(wd, n) == IF n = 0 THEN wd ELSE WdtTicked(Wdt_tick(wd)[1], n - 1)

\* the timers of d are those of c after n more ticks each
TimersAdvanced(c, d, n) ==
    /\ d.timer0 = Timer0Ticked(c.timer0, n)
    /\ d.timer1 = Timer1Ticked(c.timer1, n)

\* the cycle counters of the CPU and of the statistics grew by what the
\* step returned, the 2 cycles of a serviced interrupt included
CyclesCharged(r) ==
    /\ r.cycles = ExecutorCycles(r) + (IF r.obs.interrupted THEN 2 ELSE 0)
    /\ ExecutorCycles(r) \in {1, 2}
    /\ r.obs.ticks = ExecutorCycles(r)

\* C33 as stated: in a step that executes an instruction and does not end
\* in a WDT reset, Timer0, Timer1 and the WDT are each ticked as many times
\* as the executor returned cycles; the 2 cycles of a serviced interrupt
\* are charged to the cycle counters and tick nothing.
C33_PeripheralsTickedCyclesTimes ==
    [][ PlainStep(ret')
        => /\ CyclesCharged(ret')
           /\ cpu'.cycles = cpu.cycles + ret'.cycles
           /\ stats'.cycles_elapsed = stats.cycles_elapsed + ret'.cycles
           /\ TimersAdvanced(cpu, cpu', ExecutorCycles(ret'))
           /\ cpu'.wdt = WdtTicked(cpu.wdt, ExecutorCycles(ret')) ]_vars

\* C33: ... Timer0 and Timer1 are each ticked as many times as the executor
\* returned cycles, and so is the WDT when the step found the CPU awake; a
\* step that woke the CPU by interrupt has ticked the WDT once more, before
\* the wake.
C33_WdtTickedOnceMoreOnWake ==
    [][ PlainStep(ret')
        => /\ CyclesCharged(ret')
           /\ cpu'.cycles = cpu.cycles + ret'.cycles
           /\ stats'.cycles_elapsed = stats.cycles_elapsed + ret'.cycles
           /\ TimersAdvanced(cpu, cpu', ExecutorCycles(ret'))
           /\ cpu'.wdt = WdtTicked(cpu.wdt, ExecutorCycles(ret')
                                               + (IF cpu.sleeping THEN 1 ELSE 0)) ]_vars

\* a two-cycle instruction has been executed awake in a step that serviced
\* nothing, and Timer0 has overflowed on one of its two ticks
C33_Witness ==
    /\ PlainStep(ret) /\ ret.obs.op = "GOTO" /\ ret.cycles = 2
    /\ ~ret.obs.woke /\ ret.obs.tmr0_overflow
    /\ cpu.wdt.counter > 0

\* a step has woken the CPU by interrupt and executed an instruction in
\* one cycle
C33_WokeAndTicked ==
    /\ PlainStep(ret) /\ ret.obs.woke /\ ret.obs.interrupted /\ ret.cycles = 3

(***************************************************************************)
(* C34 -- code bug                                                         *)
(***************************************************************************)
\* C34 as stated: a step never decreases the CPU cycle counter.
C34_CyclesNeverDecrease ==
    [][ ret'.op = "step" => cpu'.cycles >= cpu.cycles ]_vars

\* a step in which the WDT reset the CPU has returned with the CPU cycle
\* counter at 0 after instructions had been counted
C34_WdtResetZeroesCycles ==
    /\ ret.op = "step" /\ ret.kind = "ok" /\ ret.obs.branch = "wdt_reset"
    /\ cpu.cycles = 0
    /\ stats.cycles_elapsed > 0

(***************************************************************************)
(* C40 -- code bug                                                         *)
(***************************************************************************)
\* C40 as stated: a step one of whose WDT ticks reached the timeout period
\* ends as a wake-up by the WDT, if it found the CPU sleeping, or as a
\* device reset.
C40_TimeoutWakesOrResets ==
    [][ (ret'.op = "step" /\ ret'.obs.wdt_timeout)
        => \/ /\ cpu.sleeping
              /\ ret'.obs.branch = "wdt_wake"
              /\ ~cpu'.sleeping
              /\ Bit(cpu'.memory.data_memory[STATUS], 4) = 0
           \/ /\ ret'.obs.branch = "wdt_reset"
              /\ cpu' = Cpu_reset(cpu') ]_vars

\* the step that executed SLEEP made the tick that reached the timeout
\* period: the CPU sleeps, not reset and not woken, and the WDT counts
\* again from 0
C40_TimeoutDroppedBySleep ==
    /\ ret.op = "step" /\ ret.obs.op = "SLEEP" /\ ret.obs.branch = "exec"
    /\ ret.obs.wdt_timeout
    /\ cpu.sleeping /\ cpu.wdt.counter = 0
    /\ cpu.cycles > 0

(***************************************************************************)
(* C35 -- corrected                                                        *)
(***************************************************************************)
SkipOps == {"BTFSC", "BTFSS", "DECFSZ", "INCFSZ"}

\* the byte instruction i reads on CPU c, whose PC is past the instruction
Operand(i, c) == read_register(c, i.f)

\* the byte DECFSZ / INCFSZ writes back
WrittenBack(i, c) ==
    IF i.op = "DECFSZ" THEN (Operand(i, c) + 255) % 256
    ELSE (Operand(i, c) + 1) % 256

\* the skip condition of i on CPU c: the bit tested, or the byte written
\* back being 0
SkipTaken(i, c) ==
    CASE i.op = "BTFSC" -> (Operand(i, c) \div Pow2(i.b)) % 2 = 0
      [] i.op = "BTFSS" -> (Operand(i, c) \div Pow2(i.b)) % 2 = 1
      [] OTHER          -> WrittenBack(i, c) = 0

\* DECFSZ / INCFSZ i has stored its byte in W or in the register
Stored(i, c, d) ==
    i.op \in {"DECFSZ", "INCFSZ"}
    => IF i.d = 0 THEN d.w = WrittenBack(i, c)
       ELSE i.f # PCL => read_register(d, i.f) = WrittenBack(i, c)

\* the step that returned r fetched and executed a skip instruction
SkipStep(r) ==
    /\ r.op = "step" /\ r.kind = "ok"
    /\ r.obs.branch \in {"exec", "wdt_reset"}
    /\ r.obs.op \in SkipOps

\* DECFSZ / INCFSZ with PCL as its destination
WritesPcl(i) == i.op \in {"DECFSZ", "INCFSZ"} /\ i.d = 1 /\ i.f = PCL

\* C35 as stated: a skip instruction fetched at p ends its step with
\* PC = p + 2 (mod 0x2000) and 2 executor cycles when the condition,
\* evaluated on the value written back, holds, and with PC = p + 1 and 1
\* cycle otherwise.
C35_SkipAdvancesPc ==
    [][ SkipStep(ret')
        => LET p == ret'.obs.fetch_pc
               i == InstrAt(p)
               c == [cpu EXCEPT !.pc = (p + 1) % 8192]
           IN  IF SkipTaken(i, c)
               THEN cpu'.pc = (p + 2) % 8192 /\ ExecutorCycles(ret') = 2
               ELSE cpu'.pc = (p + 1) % 8192 /\ ExecutorCycles(ret') = 1 ]_vars

\* C35: ... in a step that does not end in a WDT reset, unless the
\* instruction is DECFSZ or INCFSZ with PCL as its destination; that one
\* sets PC to PCLATH:result, one further when the result is 0.  The cycles
\* are 2 when the condition holds and 1 otherwise in every case, and the
\* byte written back is the one the condition is evaluated on.
C35_SkipAdvancesPcUnlessPclWritten ==
    [][ SkipStep(ret')
        => LET p == ret'.obs.fetch_pc
               i == InstrAt(p)
               c == [cpu EXCEPT !.pc = (p + 1) % 8192]
               taken == SkipTaken(i, c)
               target == cpu.memory.data_memory[PCLATH] * 256 + WrittenBack(i, c)
           IN  /\ ExecutorCycles(ret') = IF taken THEN 2 ELSE 1
               /\ ret'.obs.branch = "exec"
                  => /\ Stored(i, c, cpu')
                     /\ cpu'.pc = IF WritesPcl(i)
                                  THEN IF taken THEN (target + 1) % 8192
                                       ELSE target
                                  ELSE IF taken THEN (p + 2) % 8192
                                       ELSE (p + 1) % 8192 ]_vars

\* INCFSZ has brought a register to 0 at the last address and skipped over
\* address 0
C35_Witness ==
    /\ SkipStep(ret) /\ ret.obs.branch = "exec"
    /\ ret.obs.op = "INCFSZ" /\ ret.obs.fetch_pc = \H1FFF
    /\ ret.cycles = 2 /\ cpu.pc = 1
    /\ cpu.memory.data_memory[\H20] = 0

\* INCFSZ PCL,1 has been executed at address 6 and PC is 8
C35_PclWritten ==
    /\ SkipStep(ret) /\ ret.obs.branch = "exec"
    /\ ret.obs.op = "INCFSZ" /\ ret.obs.fetch_pc = 6
    /\ cpu.pc = 8

(***************************************************************************)
(* C36 -- code bug                                                         *)
(***************************************************************************)
\* C36 as stated: a read of INDF returns what a direct read of the
\* register FSR points at returns, and a write to INDF leaves the CPU as
\* the direct write of the same byte to that register leaves it.
C36_IndfIsDirectAccess ==
    /\ q.op = "read" => q.indf = q.direct
    /\ q.op = "write" => cpu = write_register(q.before, q.target, q.value)

\* what the code does: INDF reads and writes the data memory byte at the
\* address in FSR and nothing else
C36_IndfIsMemoryAccess ==
    /\ q.op = "read" => q.indf = read_data(q.before.memory, q.target)
    /\ q.op = "write"
       => cpu = [q.before EXCEPT
                    !.memory = write_data(q.before.memory, q.target, q.value)]

\* FSR points at TMR1L, 0x31 has been written through INDF, and the low
\* byte of Timer1 still is 0x34
C36_Timer1NotWritten ==
    /\ q.op = "write" /\ q.target = TMR1L /\ q.value = \H31
    /\ read_low(cpu.timer1) = \H34
    /\ read_data(cpu.memory, TMR1L) = \H31

(***************************************************************************)
(* C39 -- code bug                                                         *)
(***************************************************************************)
\* CPU c with the other bank selected: RP0 of STATUS inverted, nothing
\* else changed
OtherBank(c) ==
    [c EXCEPT !.memory.data_memory[STATUS] =
                 IF Bit(c.memory.data_memory[STATUS], 5) = 1
                 THEN c.memory.data_memory[STATUS] - 32
                 ELSE c.memory.data_memory[STATUS] + 32]

\* the decision Cpu::check_and_handle_interrupts takes on CPU c
Services(c) == check_and_handle_interrupts(c)[2]

\* the TMR1IE bit the interrupt check reads on CPU c
CheckedTmr1ie(c) == read_register(c, PIE1) % 2

\* C39 as stated: a step takes the decision to service an interrupt that
\* the same state with the other bank selected takes, and once the
\* program has written PIE1 (operand 0x0C with RP0 = 1), the TMR1IE bit
\* the check reads is the bit written.
C39_DecisionIgnoresBank ==
    [][ (ret'.op = "step" /\ ret'.obs.branch \in Fetching)
        => /\ ret'.obs.interrupted = Services(OtherBank(cpu))
           /\ q.written => CheckedTmr1ie(cpu) = q.tmr1ie ]_vars

\* the decision depends on the registers and the latch alone
C39_DecisionFromRegisters ==
    [][ (ret'.op = "step" /\ ret'.obs.branch \in Fetching)
        => ret'.obs.interrupted =
              (/\ ShouldInterrupt(cpu.memory.data_memory[INTCON],
                                  cpu.memory.data_memory[PIE1],
                                  cpu.memory.data_memory[PIR1])
               /\ ~Latch(cpu)) ]_vars

\* in Bank 1 with GIE and PEIE set, the byte the program stored through
\* operand 0x0C has been taken for both PIE1 and PIR1: an interrupt has been
\* serviced with Timer1 short of its overflow and the PIE1 register clear
C39_ServicedWithoutFlag ==
    /\ ret.op = "step" /\ ret.obs.interrupted
    /\ ~ret.obs.tmr1_overflow
    /\ cpu.timer1.counter > 65000
    /\ cpu.memory.data_memory[PIE1] = 0
    /\ q.written /\ q.tmr1ie = 1

\* in Bank 0 with GIE and PEIE set, TMR1IF set by the overflow of Timer1
\* and TMR1IE written by the program, no interrupt has been serviced
C39_EnabledButNotServiced ==
    /\ ret.op = "step" /\ ret.obs.branch = "exec" /\ ~ret.obs.interrupted
    /\ ret.obs.op = "GOTO" /\ ret.obs.fetch_pc = 15
    /\ cpu.timer1.counter < 100
    /\ Bit(cpu.memory.data_memory[STATUS], 5) = 0
    /\ Bit(cpu.memory.data_memory[PIR1], 0) = 1
    /\ cpu.memory.data_memory[INTCON] = \HC0
    /\ q.written /\ q.tmr1ie = 1

(***************************************************************************)
(* C38 -- code bug                                                         *)
(***************************************************************************)
\* the step that returned r was issued from the loop of Simulator::run and
\* fetched an instruction
FetchedByRun(r) == r.op = "run" /\ r.obs.branch \in Fetching

\* C38 as stated: no step issued from Run fetches from an address in the
\* breakpoint set.
C38_RunFetchesNoBreakpoint ==
    [][ FetchedByRun(ret') => ~Contains(breakpoints, ret'.obs.fetch_pc) ]_vars

\* what the loop of Run guarantees: PC is at no breakpoint when the step is
\* issued
C38_RunStepsFromNoBreakpoint ==
    [][ FetchedByRun(ret') => ~Contains(breakpoints, cpu.pc) ]_vars

\* a step issued from Run has serviced an interrupt and executed the
\* instruction at the vector, where a breakpoint is set
C38_BreakpointAtVectorExecuted ==
    /\ FetchedByRun(ret) /\ ret.obs.branch = "exec"
    /\ ret.obs.interrupted /\ ret.obs.op = "BCF"
    /\ ret.obs.fetch_pc = interrupt_vector
    /\ Contains(breakpoints, interrupt_vector)
    /\ stats.instructions_executed > 0

(***************************************************************************)
(* C37 -- code bug                                                         *)
(***************************************************************************)
\* C37 as stated: run_n_cycles, once called, returns, and when it returns
\* Ok the statistics have reached the cycle count at the call plus n.
C37_RunNCyclesReturns ==
    /\ [](ret.op = "run_n_cycles" /\ ret.kind = "ok"
          => stats.cycles_elapsed >= q.target)
    /\ (q.call = "run_n_cycles") ~> (q.call = "none")

\* with the WDT enabled the call returns
C37_ReturnsWithWdtEnabled ==
    (q.call = "run_n_cycles" /\ cpu.wdt.enabled) ~> (q.call = "none")

\* the loop of run_n_cycles has taken a step asleep with the WDT disabled
\* and no interrupt to wake the CPU, short of its target
C37_AsleepShortOfTarget ==
    /\ q.call = "run_n_cycles" /\ ret.op = "run_n_cycles"
    /\ ret.obs.branch = "asleep"
    /\ cpu.sleeping /\ ~cpu.wdt.enabled /\ ~Pending(cpu)
    /\ stats.cycles_elapsed < q.target

====
